---- MODULE Spec2Model ----
(***************************************************************************)
(* Agent execution core of T-5000: BaseAgent.run, BaseAgent._execute_tool, *)
(* the confirmation gate, the tool registry and the provider send path.    *)
(*                                                                         *)
(* Conventions.  An Optional[x] is a sequence of length 0 (None) or 1.     *)
(* A text is a sequence of string tokens; "" is the empty sequence and     *)
(* concatenation is \o.  A ChatMessage part is a record tagged by type.    *)
(***************************************************************************)
EXTENDS Integers, Sequences, FiniteSets, TLC

None == <<>>
Some(x) == <<x>>

\* ------------------------------------------------------------------ bounds
\* lines the operator types before closing stdin
MaxStdinLines == 2
\* tokens a vendor reports per counter for one call, when it reports usage
TokensPerCall == 1
\* the hard quota of a run that configures one (MAX_GLOBAL_TOKENS > 0)
Quota == 4
\* distinct callables registered under one name (re-registration on reload)
MaxVersion == 2

\* ------------------------------------------------------ program constants
max_tool_rounds == 10

HIGH_RISK_TOOLS == {"run_shell_command", "edit_file", "kill_process"}

ToolNames == {"read_file", "run_shell_command", "edit_file", "kill_process"}

\* ------------------------------------------------------------------ texts
DefaultFinal == <<"[Agent run completed without a final text response]">>
QuotaText == <<"[Error: Token quota exceeded.]">>
NoContentText == <<"[Error: LLM provided no response content.]">>
NoFinalText == <<"[Agent finished without a final text response]">>
MaxRoundsWarning == <<"\n[Warning: Agent reached max tool rounds]">>
TruncatedWarning == <<"\n[Warning: Response truncated by model due to token limits]">>
UserPrompt == <<"do the task">>
AgentName == "CodingAgent"

StartErrorText(e) ==
    <<"[Error: Failed to start chat session with LLM provider: ">> \o e \o <<"]">>

LoopErrorText(round, e) ==
    <<"[Error occurred in agent ", AgentName, " during turn ", ToString(round), ": ">> \o e \o <<"]">>

\* tokens that open, and tokens that close, a bracketed error text
BracketOpenTokens ==
    {"[Error: Failed to connect to OpenAI API: ",
     "[Error: OpenAI API rate limit exceeded. Please wait and try again.]",
     "[Error: Invalid OpenAI API Key or Authentication.]",
     "[Error: Request exceeds OpenAI's context length limit.]",
     "[Error: Invalid request to OpenAI API: ",
     "[Error: OpenAI API Error (",
     "[Error: Request to OpenAI API timed out.]",
     "[Error communicating with OpenAI: ",
     "[Error: Response stopped by content filter.]",
     "[Error: OpenAI response contained no choices.]"}

BracketCloseTokens ==
    {"]",
     "[Error: OpenAI API rate limit exceeded. Please wait and try again.]",
     "[Error: Invalid OpenAI API Key or Authentication.]",
     "[Error: Request exceeds OpenAI's context length limit.]",
     "[Error: Request to OpenAI API timed out.]",
     "[Error: Response stopped by content filter.]",
     "[Error: OpenAI response contained no choices.]"}

IsBracketedError(t) ==
    /\ Len(t) >= 1
    /\ t[1] \in BracketOpenTokens
    /\ t[Len(t)] \in BracketCloseTokens

\* text `m` occurs in text `t`
Contains(t, m) ==
    \E i \in 1..(Len(t) + 1) :
        /\ i + Len(m) - 1 <= Len(t)
        /\ SubSeq(t, i, i + Len(m) - 1) = m

\* -------------------------------------------------------------- data model
\* ToolCall.arguments as produced by an adapter: a mapping the tool accepts,
\* "missing_file" is a mapping naming a file that does not exist;
\* a mapping whose keywords the tool rejects, a mapping on which the tool
\* raises while running, or a JSON value that is not a mapping (the OpenAI
\* adapter stores json.loads(...) unchecked)
ArgKinds == {"ok", "bad_kwargs", "fails", "not_mapping", "missing_file"}

IsMapping(args) == args # "not_mapping"

ToolCall(id, name, arguments) == [id |-> id, name |-> name, arguments |-> arguments]

\* ToolResult with its __post_init__: an error that is set forces is_error
ToolResult(id, name, result, error, is_error) ==
    [id |-> id, name |-> name, result |-> result, error |-> error,
     is_error |-> (is_error \/ error # None)]

TextPart(t) == [type |-> "text", text |-> t, calls |-> <<>>, results |-> <<>>]
ToolCallsPart(cs) == [type |-> "tool_calls", text |-> <<>>, calls |-> cs, results |-> <<>>]
\* one ToolResult as a part of a tool message (parts=tool_results)
ToolResultPart(r) == [type |-> "tool_result", text |-> <<>>, calls |-> <<>>, results |-> <<r>>]

ChatMessage(role, parts) == [role |-> role, parts |-> parts]

\* the parts run() hands to send_message: the prompt, or a turn's ToolResults
PromptParts(texts, results) == [texts |-> texts, results |-> results]

RECURSIVE JoinLines(_)
\* "\n".join(texts)
JoinLines(texts) ==
    IF texts = <<>> THEN <<>>
    ELSE IF Len(texts) = 1 THEN texts[1]
    ELSE texts[1] \o <<"\n">> \o JoinLines(Tail(texts))

RECURSIVE TextsOf(_)
TextsOf(parts) ==
    IF parts = <<>> THEN <<>>
    ELSE (IF parts[1].type = "text" THEN <<parts[1].text>> ELSE <<>>) \o TextsOf(Tail(parts))

\* ChatMessage.get_text_content: joins the string parts, never None
get_text_content(msg) == JoinLines(TextsOf(msg.parts))

\* ---------------------------------------------------------- tool registry
\* TOOL_REGISTRY maps a name to the callable registered under it; callables
\* are told apart by a version number, 0 standing for "no entry"
NoFunction == 0

\* the mutant keeps the first definition of a name that is registered again
register_tool_keeps_first(registry, tool_name, func) ==
    IF registry[tool_name] # NoFunction THEN registry
    ELSE [registry EXCEPT ![tool_name] = func]

\* register_tool: stores the function under the name, overwriting
register_tool(registry, tool_name, func) == [registry EXCEPT ![tool_name] = func]

\* inspect.getdoc(func): the sample callables with an odd version number have
\* a docstring, the others have none
GetDoc(func) == IF func % 2 = 1 THEN Some(<<"Does the work.", "\n", "Details.">>) ELSE None

\* the parameter names inspect.signature(func) gives: the sample callables
\* with an odd version number take one parameter, the others take none
SignatureOf(func) == IF func % 2 = 1 THEN {"file_path"} ELSE {}

\* the explicit parameters a decorator may pass: None, a dictionary, or a
\* value that is no dictionary
ParameterKinds == {"None", "dict", "not_a_dict"}
ExplicitParameters == {"path"}

\* the explicit descriptions a decorator may pass: None, "", or a text
Descriptions == {None, Some(<<>>), Some(<<"Explicit description.">>)}

\* the description of the schema: the explicit one when truthy, else the
\* first line of the docstring, else the fallback
SchemaDescription(tool_name, func, description) ==
    IF description # None /\ description[1] # <<>> THEN description[1]
    ELSE IF GetDoc(func) # None THEN <<GetDoc(func)[1][1]>>
    ELSE <<"Executes the ", tool_name, " operation.">>

\* the "parameters" key of the schema: None when the key is not set
SchemaParameters(func, parameters) ==
    IF parameters = "dict" THEN Some(ExplicitParameters)
    ELSE IF parameters = "not_a_dict" THEN Some({})
    ELSE IF SignatureOf(func) # {} THEN Some(SignatureOf(func))
    ELSE None

\* the tool_schema register_tool builds
ToolSchema(tool_name, func, description, parameters) ==
    [description |-> SchemaDescription(tool_name, func, description),
     parameters |-> SchemaParameters(func, parameters)]

\* the "schema" half of TOOL_REGISTRY[tool_name] = {...}
register_schema(schemas, tool_name, schema) == [schemas EXCEPT ![tool_name] = Some(schema)]

\* the mutant copies every registered tool, allowed or not
PrepareAllowedToolsAll(registry, allowed) == registry

\* BaseAgent._prepare_allowed_tools: the registry filtered by allowed_tools
PrepareAllowedTools(registry, allowed) ==
    [n \in ToolNames |-> IF n \in allowed THEN registry[n] ELSE NoFunction]

\* ------------------------------------------------- _execute_tool, by parts
NotImplementedText(name) ==
    <<"Tool '", name, "' is allowed for agent '", AgentName,
      "' but has no implementation found in registry.">>

NotAllowedText(name) ==
    <<"Tool '", name, "' not available or not allowed for agent '", AgentName, "'.">>

CancelledText(name) == <<"Operation cancelled by user for tool: ", name, ".">>

\* what str(e) is for the exception a call raises
ExceptionMessage(tc) ==
    CASE tc.arguments = "not_mapping" -> <<"argument after ** must be a mapping">>
      [] tc.arguments = "bad_kwargs"  -> <<"got an unexpected keyword argument">>
      [] OTHER                        -> <<"tool failure in ", tc.name>>

AttributeErrorMessage == <<"object has no attribute 'items'">>

\* what read_file returns for a path that is no file, filesystem.py:31-33
FileNotFoundOutput == <<"Error: File not found: ", "missing.txt", " (Resolved: ", "/missing.txt", ")">>

\* str(tool_output)
ToolOutput(tc) ==
    IF tc.name = "read_file" /\ tc.arguments = "missing_file" THEN FileNotFoundOutput
    ELSE <<"output of ", tc.name>>

\* the mutant asks for no confirmation at all
NeedsConfirmationNever(tool_name) == FALSE

\* agent.py:237, the test that sends a call through the gate
NeedsConfirmation(tool_name) == tool_name \in HIGH_RISK_TOOLS

\* lookup failure, agent.py:228-234
LookupErrorResult(tc, allowed) ==
    ToolResult(tc.id, tc.name, None,
               Some(IF tc.name \in allowed THEN NotImplementedText(tc.name)
                    ELSE NotAllowedText(tc.name)),
               TRUE)

\* the mutant reports a decline as a failed execution
DeclinedResultAsError(tc) ==
    ToolResult(tc.id, tc.name, None, Some(CancelledText(tc.name)), TRUE)

\* the operator declined, agent.py:238-242
DeclinedResult(tc) ==
    ToolResult(tc.id, tc.name, Some(CancelledText(tc.name)), None, FALSE)

\* the callable returned, agent.py:250-252, 264
SuccessResult(tc) == ToolResult(tc.id, tc.name, Some(ToolOutput(tc)), None, FALSE)

\* the mutant keeps a result next to the error
TypeErrorResultWithOutput(tc) ==
    ToolResult(tc.id, tc.name, Some(<<"None">>),
               Some(<<"Error executing tool '", tc.name,
                      "': Invalid arguments provided by LLM. Details: ">>
                    \o ExceptionMessage(tc)),
               TRUE)

\* except TypeError, agent.py:255-258
TypeErrorResult(tc) ==
    ToolResult(tc.id, tc.name, None,
               Some(<<"Error executing tool '", tc.name,
                      "': Invalid arguments provided by LLM. Details: ">>
                    \o ExceptionMessage(tc)),
               TRUE)

\* the mutant drops the exception's message from the error text
ExceptionResultNoMessage(tc) ==
    ToolResult(tc.id, tc.name, None,
               Some(<<"Error executing tool '", tc.name, "'">>), TRUE)

\* except Exception, agent.py:259-262
ExceptionResult(tc) ==
    ToolResult(tc.id, tc.name, None,
               Some(<<"Error executing tool '", tc.name, "': ">> \o ExceptionMessage(tc)),
               TRUE)

\* ------------------------------------------------------ confirmation gate
\* what the operator may type on one line
InputLines == {"yes", " YES", "no", "No ", "y", ""}

\* confirm.lower().strip()
LowerStrip(line) ==
    CASE line \in {"yes", " YES"} -> "yes"
      [] line \in {"no", "No "}   -> "no"
      [] OTHER                    -> line

\* ------------------------------------------------------------- exceptions
\* isinstance(e, cls) for the exception classes that occur
IsInstance(e, cls) ==
    \/ cls = "Exception"
    \/ cls = e
    \/ cls = "OSError" /\ e \in {"PermissionError", "FileNotFoundError"}

Caught(handlers, e) == \E cls \in handlers : IsInstance(e, cls)

\* an exception in flight: its class and str(e)
Exc(cls, msg) == [cls |-> cls, msg |-> msg]

\* the except clauses of _load_state, agent.py:167-176
LoadStateHandlers == {"JSONDecodeError", "FileNotFoundError", "Exception"}

\* the except clause around start_chat, agent.py:305
StartChatHandlers == {"Exception"}

\* the except clause of the loop body, agent.py:376
LoopHandlers == {"Exception"}

\* the except clauses of _save_state, agent.py:208-211
SaveStateHandlers == {"PermissionError", "Exception"}

\* the except clause around the callable, agent.py:255-262
ToolHandlers == {"TypeError", "Exception"}

\* the except clauses of ask_confirmation_async around input(), tool_utils.py:423-430
GateInputHandlers == {"EOFError", "Exception"}

\* ----------------------------------------------------------- the provider
\* what one vendor call can come to: an exception of the SDK, or a response
ApiErrors == {"APIConnectionError", "RateLimitError", "AuthenticationError",
              "BadRequestError", "APIStatusError", "TimeoutError", "Exception"}

ApiError(kind) ==
    [kind |-> "error", error |-> kind, choices |-> FALSE, content |-> None,
     tool_calls |-> <<>>, finish_reason |-> "", usage |-> FALSE]

NoCallYet ==
    [kind |-> "none", error |-> "", choices |-> FALSE, content |-> None,
     tool_calls |-> <<>>, finish_reason |-> "", usage |-> FALSE]

ApiResponse(choices, content, calls, finish_reason, usage) ==
    [kind |-> "response", error |-> "", choices |-> choices, content |-> content,
     tool_calls |-> calls, finish_reason |-> finish_reason, usage |-> usage]

\* the text each except clause of send_message produces, openai.py:327-352
ProviderErrorText(kind) ==
    CASE kind = "APIConnectionError"  -> <<"[Error: Failed to connect to OpenAI API: ", "connection refused", "]">>
      [] kind = "RateLimitError"      -> <<"[Error: OpenAI API rate limit exceeded. Please wait and try again.]">>
      [] kind = "AuthenticationError" -> <<"[Error: Invalid OpenAI API Key or Authentication.]">>
      [] kind = "BadRequestError"     -> <<"[Error: Invalid request to OpenAI API: ", "bad request", "]">>
      [] kind = "APIStatusError"      -> <<"[Error: OpenAI API Error (", "500", "): ", "server error", "]">>
      [] kind = "TimeoutError"        -> <<"[Error: Request to OpenAI API timed out.]">>
      [] OTHER                        -> <<"[Error communicating with OpenAI: ", "unexpected", "]">>

ContentFilterText == <<"[Error: Response stopped by content filter.]">>
NoChoicesText == <<"[Error: OpenAI response contained no choices.]">>

\* `x if x else None` for a list
NoneIfEmpty(calls) == IF calls = <<>> THEN None ELSE Some(calls)

\* the mutant logs the SDK's exception and returns no text
send_message_error_silent(outcome, lp, lc) ==
    [text |-> None, tool_calls |-> None, last_prompt |-> lp, last_completion |-> lc]

\* the except clauses of OpenAIProvider.send_message: a bracketed text, no
\* tool calls; only the catch-all clause resets the provider's last usage
send_message_error(outcome, lp, lc) ==
    [text |-> Some(ProviderErrorText(outcome.error)), tool_calls |-> None,
     last_prompt |-> IF outcome.error = "Exception" THEN None ELSE lp,
     last_completion |-> IF outcome.error = "Exception" THEN None ELSE lc]

\* OpenAIProvider.send_message from the API call on: (text, tool_calls) and
\* the provider's _last_*_tokens afterwards
send_message(outcome, lp, lc) ==
    IF outcome.kind = "error" THEN send_message_error(outcome, lp, lc)
    ELSE
      LET nlp == IF outcome.usage THEN Some(TokensPerCall) ELSE lp
          nlc == IF outcome.usage THEN Some(TokensPerCall) ELSE lc
          \* `if message.content:` keeps only a non-empty content
          text0 == IF outcome.content # None /\ outcome.content[1] # <<>>
                   THEN outcome.content ELSE None
          text1 == CASE outcome.finish_reason \in {"stop", "tool_calls"} -> text0
                     [] outcome.finish_reason = "length" ->
                          Some((IF text0 = None THEN <<>> ELSE text0[1]) \o TruncatedWarning)
                     [] outcome.finish_reason = "content_filter" -> Some(ContentFilterText)
                     [] OTHER ->
                          Some((IF text0 = None THEN <<>> ELSE text0[1])
                               \o <<"\n[Warning: Response stopped unexpectedly (",
                                    outcome.finish_reason, ")]">>)
      IN IF ~outcome.choices
         THEN [text |-> Some(NoChoicesText), tool_calls |-> None,
               last_prompt |-> nlp, last_completion |-> nlc]
         ELSE [text |-> text1, tool_calls |-> NoneIfEmpty(outcome.tool_calls),
               last_prompt |-> nlp, last_completion |-> nlc]

\* ------------------------------------------------------------------ state
VARIABLES
    TOOL_REGISTRY,            \* tools/__init__.py: name -> registered callable
    registry_schema,          \* tools/__init__.py: name -> TOOL_REGISTRY[name]["schema"]
    allowed_tools,            \* BaseAgent.allowed_tools
    agent_tool_functions,     \* BaseAgent.agent_tool_functions
    history,                  \* BaseAgent.history
    total_prompt_tokens,      \* BaseAgent.total_prompt_tokens
    total_completion_tokens,  \* BaseAgent.total_completion_tokens
    last_prompt_tokens,       \* LLMProvider._last_prompt_tokens
    last_completion_tokens,   \* LLMProvider._last_completion_tokens
    MAX_GLOBAL_TOKENS,        \* settings.MAX_GLOBAL_TOKENS
    pc,                       \* where run() stands
    tool_round,               \* run(): tool_round
    final_response,           \* run(): final_response
    current_prompt_parts,     \* run(): current_prompt_parts
    load_state,               \* run(): the load_state argument
    save_state,               \* run(): the save_state argument
    returned,                 \* what run() returned to its caller, if it did
    raised,                   \* the exception that left run(), if one did
    script,                   \* the model's behaviour: the tool calls it asks for
    state_file,               \* the agent's state file on disk
    stdin_read,               \* lines the operator has typed so far
    stdin_closed,             \* the operator's stdin reached end of input
    tool_tasks,               \* run(): tool_tasks, the asyncio tasks of the turn
    send_count,               \* number of send_message calls issued by the run
    api_outcome,              \* what the vendor call of the last send_message came to
    specialist_agents,        \* ControllerAgent.specialist_agents: the names it maps
    specialist_reply,         \* what a specialist's run comes to when it is delegated to
    active_sessions,          \* web/routes.py: session id -> its cached agent system
    requests,                 \* the /api/prompt requests the server is handling
    directory,                \* AGENT_STATE_DIR: file name -> inode, 0 when absent
    inodes,                   \* the content of each inode, a sequence of JSON tokens
    clock,                    \* time.time() in whole seconds
    crashed,                  \* the server process died
    adapter_pc,               \* where the caller of the AnthropicProvider stands
    adapter_history,          \* the history handed to AnthropicProvider.start_chat
    chat_session,             \* the message list start_chat returned
    conversion_rejected,      \* _convert_history_to_anthropic found its result invalid
    vendor_calls,             \* number of client.messages.create calls issued
    messages_sent,            \* the messages argument of the last such call
    adapter_result,           \* what the last send_message returned as text, if any
    response_parts,           \* the function calls of one model response, in order
    all_tool_calls,           \* the ToolCalls the adapter extracted from it so far
    clock_ms,                 \* int(time.time()*1000)
    arg_hash,                 \* hash(str(args)) % 10000 in this process
    last_registration,        \* the latest register_tool call of each name
    registrations,            \* register_tool calls made after startup
    command,                  \* the arguments of the _run_command_async call in progress
    command_pc,               \* where _run_command_async stands
    process,                  \* the subprocess: "none", "running" or "exited"
    returncode,               \* process.returncode
    elapsed,                  \* seconds waited in asyncio.wait_for
    command_result,           \* what _run_command_async returned
    commands_run,             \* _run_command_async calls started
    http_request,             \* the POST to /api/prompt being handled
    http_pc,                  \* where handle_prompt stands
    http_response,            \* the status and JSON body handle_prompt answered with
    controller_gets,          \* get_session_controller calls of this request
    run_awaits,               \* controller.run awaits of this request
    posts,                    \* POSTs received
    tree,                     \* the file system below the working directory: path -> "absent", "dir" or "file"
    cwd_writable,             \* whether the user may create entries in the working directory
    directory_path,           \* the argument of the latest create_directory call
    created,                  \* the directories the latest create_directory call made
    create_result,            \* what the latest create_directory call returned
    agent_provider,           \* agent -> the provider instance the cache gave it
    provider_kind,            \* the vendor the agents are configured for
    provider_state,           \* provider instance -> _system_prompt_cache and _translated_tool_schemas
    agent_session,            \* agent -> what the chat_session of its run holds
    delegation_pc,            \* where the Controller run and the delegated run stand
    delegate,                 \* the specialist the Controller delegated to
    run_turns,                \* agent -> send_message calls of its run
    model_call,               \* the latest request sent to a vendor
    delegation_result,        \* how the delegated run ended: with its text or at the turn cap
    openai_session,           \* the message list OpenAIProvider.start_chat returned
    openai_pc,                \* where the run that uses the OpenAIProvider stands
    openai_parts,             \* the prompt_parts of the next send_message
    openai_tool_calls,        \* the tool_calls_list the last send_message returned
    openai_sends,             \* send_message calls of the run
    runs,                     \* later run() calls made on the agent instance
    quota_at_entry,           \* whether the counters had reached the quota when the latest run was entered
    sends_at_entry,           \* send_message calls issued before the latest run was entered
    confirm_task,             \* the _execute_tool task whose ask_confirmation_async call is followed
    confirm_input,            \* what the latest input() of that call came to
    confirm_prompts,          \* prompts that call has issued
    confirm_inputs,           \* input() calls of that call that have ended
    gemini_response,          \* what the Gemini call of the turn came to
    turn_pc,                  \* where the turn stands: before the call, awaiting it, or handled by run()
    turn_reply,               \* the (text_response, tool_calls) send_message returned
    turn_final,               \* run(): final_response after the turn
    turn_history,             \* the messages run() appended in the turn
    turn_dispatched,          \* tool tasks run() created in the turn
    config_key,               \* agent -> the cache key its configuration gives
    models_kind,              \* the vendor the agents are configured for
    provider_cache,           \* cache key -> whether the cache holds an instance for it
    provider_model,           \* cache key -> model_name of the instance cached under it
    agent_model,              \* agent -> BaseAgent.agent_model
    instantiated,             \* agents instantiate_agents has built so far
    session_model,            \* agent -> the model its chat session is bound to, if the vendor binds one
    session_open,             \* agent -> whether its run has started a chat session
    model_request,            \* the latest request sent to the vendor: for which agent, to which model
    controller_tool_schemas,  \* ControllerAgent.agent_tool_schemas
    controller_provider_schemas,\* ControllerAgent.provider_tool_schemas
    coding_provider_schemas,  \* provider_tool_schemas of the specialist
    reload_provider,          \* the vendor name the schemas are translated for
    reload_result,            \* how the latest !reload ended
    settings_high_risk,       \* settings.HIGH_RISK_TOOLS as configured
    kill_pid,                 \* the pid argument of the kill_process call
    kill_exit,                \* how the plain kill command ends
    kill_pc,                  \* where the kill_process call stands
    escalation_prompts,       \* prompts shown for the sudo escalation
    escalation_answer,        \* the operator's latest input to that prompt
    sudo_executed,            \* the sudo kill command was run
    kill_output               \* the string kill_process returned

webVars == <<active_sessions, requests, directory, inodes, clock, crashed>>

adapterVars == <<adapter_pc, adapter_history, chat_session, conversion_rejected,
                 vendor_calls, messages_sent, adapter_result>>

extractVars == <<response_parts, all_tool_calls, clock_ms, arg_hash>>

registrationVars == <<last_registration, registrations>>

commandVars == <<command, command_pc, process, returncode, elapsed, command_result, commands_run>>

httpVars == <<http_request, http_pc, http_response, controller_gets, run_awaits, posts>>

treeVars == <<tree, cwd_writable, directory_path, created, create_result>>

providerVars == <<agent_provider, provider_kind, provider_state, agent_session, delegation_pc, delegate, run_turns,
          model_call, delegation_result>>

openaiVars == <<openai_session, openai_pc, openai_parts, openai_tool_calls, openai_sends>>

runsVars == <<runs, quota_at_entry, sends_at_entry>>

confirmVars == <<confirm_task, confirm_input, confirm_prompts, confirm_inputs>>

turnVars == <<gemini_response, turn_pc, turn_reply, turn_final, turn_history, turn_dispatched>>

modelVars == <<config_key, models_kind, provider_cache, provider_model, agent_model, instantiated, session_model, session_open, model_request>>

reloadVars == <<controller_tool_schemas, controller_provider_schemas, coding_provider_schemas, reload_provider, reload_result>>

killVars == <<settings_high_risk, kill_pid, kill_exit, kill_pc, escalation_prompts, escalation_answer, sudo_executed, kill_output>>

harnessVars == <<extractVars, registrationVars, commandVars, httpVars, treeVars, providerVars, openaiVars, runsVars, confirmVars, turnVars, modelVars, reloadVars, killVars>>

vars == <<TOOL_REGISTRY, registry_schema, allowed_tools, agent_tool_functions, history,
          total_prompt_tokens, total_completion_tokens, last_prompt_tokens,
          last_completion_tokens, MAX_GLOBAL_TOKENS, pc, tool_round,
          final_response, current_prompt_parts, load_state, save_state, returned, raised,
          script, state_file, stdin_read, stdin_closed, tool_tasks, send_count,
          api_outcome, specialist_agents, specialist_reply, active_sessions, requests,
          directory, inodes, clock, crashed, adapter_pc, adapter_history, chat_session,
          conversion_rejected, vendor_calls, messages_sent, adapter_result,
          response_parts, all_tool_calls, clock_ms, arg_hash,
          last_registration, registrations,
          command, command_pc, process, returncode, elapsed, command_result, commands_run,
          http_request, http_pc, http_response, controller_gets, run_awaits, posts,
          tree, cwd_writable, directory_path, created, create_result,
          agent_provider, provider_kind, provider_state, agent_session, delegation_pc, delegate, run_turns,
          model_call, delegation_result,
          openai_session, openai_pc, openai_parts, openai_tool_calls, openai_sends,
          runs, quota_at_entry, sends_at_entry,
          confirm_task, confirm_input, confirm_prompts, confirm_inputs,
          gemini_response, turn_pc, turn_reply, turn_final, turn_history, turn_dispatched,
          config_key, models_kind, provider_cache, provider_model, agent_model, instantiated, session_model, session_open, model_request,
          controller_tool_schemas, controller_provider_schemas, coding_provider_schemas, reload_provider, reload_result,
          settings_high_risk, kill_pid, kill_exit, kill_pc, escalation_prompts, escalation_answer, sudo_executed, kill_output>>

registryVars == <<TOOL_REGISTRY, registry_schema, allowed_tools, agent_tool_functions>>
tokenVars == <<total_prompt_tokens, total_completion_tokens, last_prompt_tokens,
               last_completion_tokens>>
envVars == <<MAX_GLOBAL_TOKENS, script, stdin_read, stdin_closed, specialist_agents,
             specialist_reply, webVars, adapterVars, harnessVars>>
runVars == <<history, pc, tool_round, final_response, current_prompt_parts,
             load_state, save_state, returned, raised, state_file, send_count, api_outcome>>

coreVars == <<registryVars, tokenVars, runVars, tool_tasks, MAX_GLOBAL_TOKENS, script,
              stdin_read, stdin_closed, specialist_agents, specialist_reply, webVars,
              adapterVars>>

\* what each harness leaves alone
extractRest == <<coreVars, registrationVars, commandVars, httpVars, treeVars, providerVars, openaiVars, runsVars, confirmVars, turnVars, modelVars, reloadVars, killVars>>
registrationRest == <<extractVars, commandVars, httpVars, treeVars, providerVars, openaiVars, runsVars, confirmVars, turnVars, modelVars, reloadVars, killVars>>
commandRest == <<coreVars, extractVars, registrationVars, httpVars, treeVars, providerVars, openaiVars, runsVars, confirmVars, turnVars, modelVars, reloadVars, killVars>>
httpRest == <<coreVars, extractVars, registrationVars, commandVars, treeVars, providerVars, openaiVars, runsVars, confirmVars, turnVars, modelVars, reloadVars, killVars>>
treeRest == <<coreVars, extractVars, registrationVars, commandVars, httpVars, providerVars, openaiVars, runsVars, confirmVars, turnVars, modelVars, reloadVars, killVars>>
providerRest == <<coreVars, extractVars, registrationVars, commandVars, httpVars, treeVars, openaiVars, runsVars, confirmVars, turnVars, modelVars, reloadVars, killVars>>
openaiRest == <<coreVars, extractVars, registrationVars, commandVars, httpVars, treeVars, providerVars, runsVars, confirmVars, turnVars, modelVars, reloadVars, killVars>>
runsRest == <<extractVars, registrationVars, commandVars, httpVars, treeVars, providerVars, openaiVars, confirmVars, turnVars, modelVars, reloadVars, killVars>>
confirmRest == <<coreVars, extractVars, registrationVars, commandVars, httpVars, treeVars, providerVars, openaiVars, runsVars, turnVars, modelVars, reloadVars, killVars>>
turnRest == <<coreVars, extractVars, registrationVars, commandVars, httpVars, treeVars, providerVars, openaiVars, runsVars, confirmVars, modelVars, reloadVars, killVars>>
modelRest == <<coreVars, extractVars, registrationVars, commandVars, httpVars, treeVars, providerVars, openaiVars, runsVars, confirmVars, turnVars, reloadVars, killVars>>
reloadRest == <<extractVars, registrationVars, commandVars, httpVars, treeVars, providerVars, openaiVars, runsVars, confirmVars, turnVars, modelVars, killVars>>
killRest == <<coreVars, extractVars, registrationVars, commandVars, httpVars, treeVars, providerVars, openaiVars, runsVars, confirmVars, turnVars, modelVars, reloadVars>>

\* ------------------------------------------------- the durable JSON layout
\* a part holding a list of ToolResults, as from_dict builds it
ToolResultsPart(rs) == [type |-> "tool_results", text |-> <<>>, calls |-> <<>>, results |-> rs]

\* a part holding an empty list
EmptyListPart == [type |-> "empty_list", text |-> <<>>, calls |-> <<>>, results |-> <<>>]

\* ToolResult.__repr__, which str(part) gives for a ToolResult
ToolResultRepr(r) ==
    <<"ToolResult(id=", r.id, ", name=", r.name, ", status=",
      IF r.is_error THEN "ERROR" ELSE "OK", ", output=">>
    \o (LET output == IF r.is_error THEN r.error ELSE r.result
        IN IF output = None THEN <<"None">> ELSE output[1])
    \o <<")">>

\* ToolCall.to_dict
ToolCallToDict(tc) == [id |-> Some(tc.id), name |-> Some(tc.name), arguments |-> Some(tc.arguments)]

\* ToolResult.to_dict
ToolResultToDict(r) ==
    [id |-> Some(r.id), name |-> Some(r.name), result |-> r.result, error |-> r.error,
     is_error |-> Some(r.is_error)]

\* one entry of "parts" in the stored layout
JsonPart(type, text, calls, results) ==
    [ptype |-> type, text |-> text, calls |-> calls, results |-> results]

\* ChatMessage.to_dict for one part: a str, a non-empty list of ToolCalls, a
\* non-empty list of ToolResults, an empty list, or anything else
PartToDict(part) ==
    CASE part.type = "text" -> JsonPart("text", part.text, <<>>, <<>>)
      [] part.type = "tool_calls" /\ part.calls # <<>> ->
           JsonPart("tool_calls", <<>>,
                    [i \in DOMAIN part.calls |-> ToolCallToDict(part.calls[i])], <<>>)
      [] part.type = "tool_results" /\ part.results # <<>> ->
           JsonPart("tool_results", <<>>, <<>>,
                    [i \in DOMAIN part.results |-> ToolResultToDict(part.results[i])])
      [] part.type \in {"tool_calls", "tool_results", "empty_list"} ->
           JsonPart("empty_list", <<>>, <<>>, <<>>)
      [] OTHER -> JsonPart("unknown", ToolResultRepr(part.results[1]), <<>>, <<>>)

\* a stored record: a JSON object with optional keys, or another JSON value
JsonMessage(is_dict, role, parts) == [is_dict |-> is_dict, role |-> role, parts |-> parts]

\* ChatMessage.to_dict
MessageToDict(msg) ==
    JsonMessage(TRUE, Some(msg.role), Some([i \in DOMAIN msg.parts |-> PartToDict(msg.parts[i])]))

\* [msg.to_dict() for msg in self.history]
ToJson(h) == [i \in DOMAIN h |-> MessageToDict(h[i])]

\* ToolCall.from_dict and ToolResult.from_dict raise KeyError on a missing key
CallDictValid(d) == d.id # None /\ d.name # None /\ d.arguments # None
ResultDictValid(d) == d.id # None /\ d.name # None

ToolCallFromDict(d) == ToolCall(d.id[1], d.name[1], d.arguments[1])

ToolResultFromDict(d) ==
    ToolResult(d.id[1], d.name[1], d.result, d.error,
               IF d.is_error # None THEN d.is_error[1] ELSE d.error # None)

\* ChatMessage.from_dict for one part
PartFromDict(pd) ==
    CASE pd.ptype = "text" -> TextPart(pd.text)
      [] pd.ptype = "tool_calls" ->
           (IF pd.calls = <<>> THEN EmptyListPart
            ELSE ToolCallsPart([i \in DOMAIN pd.calls |-> ToolCallFromDict(pd.calls[i])]))
      [] pd.ptype = "tool_results" ->
           (IF pd.results = <<>> THEN EmptyListPart
            ELSE ToolResultsPart([i \in DOMAIN pd.results |-> ToolResultFromDict(pd.results[i])]))
      [] pd.ptype = "empty_list" -> EmptyListPart
      [] OTHER -> TextPart(pd.text)

\* from_dict raises on the part
PartRaises(pd) ==
    \/ pd.ptype = "tool_calls" /\ \E i \in DOMAIN pd.calls : ~CallDictValid(pd.calls[i])
    \/ pd.ptype = "tool_results" /\ \E i \in DOMAIN pd.results : ~ResultDictValid(pd.results[i])

\* ChatMessage.from_dict
MessageFromDict(d) ==
    ChatMessage(IF d.role # None THEN d.role[1] ELSE "unknown",
                [i \in DOMAIN d.parts[1] |-> PartFromDict(d.parts[1][i])])

\* the record is kept by _load_state, agent.py:150-156
RecordValid(d) ==
    /\ d.is_dict /\ d.role # None /\ d.parts # None
    /\ \A i \in DOMAIN d.parts[1] : ~PartRaises(d.parts[1][i])

RECURSIVE ValidMessages(_)
\* the loop over history_data, agent.py:149-156
ValidMessages(records) ==
    IF records = <<>> THEN <<>>
    ELSE (IF RecordValid(records[1]) THEN <<MessageFromDict(records[1])>> ELSE <<>>)
         \o ValidMessages(Tail(records))

\* ------------------------------------------------------------------ inputs
\* the batches of tool calls a model turn may ask for
Batches ==
    { <<ToolCall("call_1", "read_file", "ok")>>,
      <<ToolCall("call_1", "read_file", "missing_file")>>,
      <<ToolCall("call_1", "read_file", "not_mapping")>>,
      <<ToolCall("call_1", "read_file", "fails"), ToolCall("call_2", "read_file", "ok")>>,
      <<ToolCall("call_1", "run_shell_command", "ok")>>,
      <<ToolCall("call_1", "run_shell_command", "ok"),
        ToolCall("call_2", "read_file", "bad_kwargs")>>,
      <<ToolCall("call_1", "run_shell_command", "not_mapping"),
        ToolCall("call_2", "read_file", "ok")>>,
      <<ToolCall("call_1", "run_shell_command", "fails"),
        ToolCall("call_1", "run_shell_command", "fails")>>,
      <<ToolCall("call_1", "kill_process", "ok")>>,
      <<ToolCall("call_1", "edit_file", "ok"), ToolCall("call_2", "read_file", "fails")>>,
      <<ToolCall("call_1", "read_file", "ok"),
        ToolCall("call_2", "run_shell_command", "ok"),
        ToolCall("call_3", "read_file", "fails")>> }

\* the batches that the model announces with a text
AnnouncedBatches ==
    { <<ToolCall("call_1", "read_file", "ok")>>,
      <<ToolCall("call_1", "run_shell_command", "ok"),
        ToolCall("call_2", "read_file", "bad_kwargs")>> }

Scripts ==
    { [batch |-> b, content |-> None] : b \in Batches }
    \cup { [batch |-> b, content |-> Some(<<"let me check">>)] : b \in AnnouncedBatches }

PriorHistory ==
    << ChatMessage("user", <<TextPart(<<"earlier question">>)>>),
       ChatMessage("assistant", <<TextPart(<<"earlier answer">>)>>) >>

\* the state file: not there, there but unreadable or not JSON, in a
\* directory the process may not search, a JSON value that is no list, or a
\* JSON list of records
AbsentFile == [kind |-> "absent", content |-> <<>>]
CorruptFile == [kind |-> "corrupt", content |-> <<>>]
UnsearchableFile == [kind |-> "unsearchable", content |-> <<>>]
NotListFile == [kind |-> "not_list", content |-> <<>>]
ListFile(records) == [kind |-> "list", content |-> records]

\* self.history after _load_state returned, agent.py:135-179
LoadedHistory(file) == IF file.kind = "list" THEN ValidMessages(file.content) ELSE <<>>

\* stored records _load_state skips: a JSON value that is no object, an
\* object without "role", and a tool_calls part whose call has no "id"
NotADictRecord == JsonMessage(FALSE, None, None)
NoRoleRecord == JsonMessage(TRUE, None, Some(<<JsonPart("text", <<"orphan">>, <<>>, <<>>)>>))
BadCallRecord ==
    JsonMessage(TRUE, Some("assistant"),
                Some(<<JsonPart("tool_calls", <<>>,
                                <<[id |-> None, name |-> Some("read_file"),
                                   arguments |-> Some("ok")]>>, <<>>)>>))

\* a file of five records of which three are malformed
MixedFile ==
    ListFile(<<ToJson(PriorHistory)[1], NotADictRecord, NoRoleRecord, BadCallRecord,
               ToJson(PriorHistory)[2]>>)

StateFiles ==
    {AbsentFile, CorruptFile, UnsearchableFile, NotListFile, ListFile(ToJson(PriorHistory)),
     MixedFile}

\* the registry after discover_tools() at import, and an agent's allow-list
StartupRegistry ==
    [n \in ToolNames |-> IF n \in {"read_file", "run_shell_command", "kill_process"}
                         THEN 1 ELSE NoFunction]

\* the schemas discover_tools() leaves: every tool module uses the bare
\* decorator, without name, description or parameters
StartupSchemas ==
    [n \in ToolNames |-> IF StartupRegistry[n] # NoFunction
                         THEN Some(ToolSchema(n, StartupRegistry[n], None, "None"))
                         ELSE None]

DefaultAllowed == {"read_file", "run_shell_command", "edit_file"}

\* an agent that is no Controller has no specialist to run
NoSpecialist == [kind |-> "none", text |-> <<>>]

\* ------------------------------------- the paths create_directory is given
MaxDepth == 2

\* relative paths of up to MaxDepth components, as sequences of names
DirPaths ==
    { <<top>> \o [i \in 1 .. n |-> "sub"] : top \in {"project", "notes"}, n \in 0 .. MaxDepth - 1 }

\* --------------------------------------------- the web server's sessions
Sessions == {"s1", "s2"}
MaxRequests == 2
MaxClock == 1
Requests == 1 .. MaxRequests

\* a path of AGENT_STATE_DIR: the stem, and ".json" or ".tmp_<sec>"
FilePath(stem, ext, sec) == [stem |-> stem, ext |-> ext, sec |-> sec]

\* BaseAgent.__init__, agent.py:60-73: the state file of an agent
StateFileOf(session_id, name) ==
    FilePath(IF session_id # None THEN <<"session_", session_id[1], "_", name, "_history">>
             ELSE <<name, "_history">>, "json", 0)

\* self.state_file.with_suffix(f".tmp_{int(time.time())}"), agent.py:200
TempFileOf(path, now) == FilePath(path.stem, "tmp", now)

\* the files the model's requests can touch
Paths ==
    {StateFileOf(None, "ControllerAgent")}
    \cup { TempFileOf(StateFileOf(None, "ControllerAgent"), now) : now \in 0 .. MaxClock }

\* json.dumps(state_data): the text as tokens
JsonToken(kind, record) == [kind |-> kind, record |-> record]
OpenBracket == JsonToken("[", JsonMessage(FALSE, None, None))
CloseBracket == JsonToken("]", JsonMessage(FALSE, None, None))
Dumps(records) ==
    <<OpenBracket>> \o [i \in DOMAIN records |-> JsonToken("record", records[i])]
    \o <<CloseBracket>>

\* json.loads accepts the text
Decodes(text) ==
    /\ Len(text) >= 2
    /\ text[1] = OpenBracket
    /\ text[Len(text)] = CloseBracket
    /\ \A i \in 2 .. Len(text) - 1 : text[i].kind = "record"

\* json.loads(content)
Loads(text) == [i \in 1 .. Len(text) - 2 |-> text[i + 1].record]

\* what _load_state finds at a path
FileAt(path, dir, nodes) ==
    IF dir[path] = 0 THEN AbsentFile
    ELSE IF Decodes(nodes[dir[path]]) THEN ListFile(Loads(nodes[dir[path]]))
    ELSE CorruptFile

\* write(2) at offset 0 of a file that may hold more than is written
Overlay(old, data) == data \o SubSeq(old, Len(data) + 1, Len(old))

\* a request that has not reached handle_prompt yet
NewRequest ==
    [pc |-> "new", session |-> "s1", fd |-> 0, data |-> <<>>,
     temp_file |-> StateFileOf(None, "ControllerAgent")]

\* an AnthropicProvider no chat was started on
InitAdapter ==
    /\ adapter_pc = "idle"
    /\ adapter_history = <<>>
    /\ chat_session = <<>>
    /\ conversion_rejected = FALSE
    /\ vendor_calls = 0
    /\ messages_sent = <<>>
    /\ adapter_result = None

\* no response is being parsed
InitExtract ==
    /\ response_parts = <<>>
    /\ all_tool_calls = <<>>
    /\ clock_ms = 0
    /\ arg_hash = [a \in {} |-> 0]

\* the decorator calls discover_tools() made at import
StartupRegistrations ==
    [n \in ToolNames |-> IF StartupRegistry[n] # NoFunction
                         THEN Some([tool_name |-> n, func |-> StartupRegistry[n],
                                    description |-> None, parameters |-> "None"])
                         ELSE None]

InitRegistrations ==
    /\ last_registration = StartupRegistrations
    /\ registrations = 0

\* a command as _run_command_async receives it
NoCommand ==
    [program |-> "ls", is_list |-> TRUE, use_shell |-> FALSE, cwd_is_dir |-> TRUE,
     timeout |-> 1, exit_code |-> 0]

InitCommandIdle ==
    /\ command = NoCommand
    /\ command_pc = "idle"
    /\ process = "none"
    /\ returncode = None
    /\ elapsed = 0
    /\ command_result = None
    /\ commands_run = 0

\* a POST to /api/prompt with what its handling will meet
NoPost ==
    [has_session |-> TRUE, is_json |-> TRUE, prompt |-> "text", controller |-> "ok",
     run |-> "returns"]

InitHttpIdle ==
    /\ http_request = NoPost
    /\ http_pc = "idle"
    /\ http_response = None
    /\ controller_gets = 0
    /\ run_awaits = 0
    /\ posts = 0

\* nothing lies below the working directory and no call was made
InitTreeIdle ==
    /\ tree = [p \in DirPaths |-> "absent"]
    /\ cwd_writable = TRUE
    /\ directory_path = <<"project">>
    /\ created = {}
    /\ create_result = None

\* the agents of one system and the provider instances the cache can hold
SharingAgents == {"ControllerAgent", "CodingAgent", "SysAdminAgent"}
ProviderInstances == {1, 2}

\* a provider instance no chat was started on, and a session holding nothing
FreshProvider == [system |-> None, tools |-> None]

InitProviderIdle ==
    /\ agent_provider = [a \in SharingAgents |-> 1]
    /\ provider_kind = "gemini"
    /\ provider_state = [p \in ProviderInstances |-> FreshProvider]
    /\ agent_session = [a \in SharingAgents |-> FreshProvider]
    /\ delegation_pc = "idle"
    /\ delegate = "CodingAgent"
    /\ run_turns = [a \in SharingAgents |-> 0]
    /\ model_call = None
    /\ delegation_result = "none"

InitOpenAIIdle ==
    /\ openai_session = <<>>
    /\ openai_pc = "idle"
    /\ openai_parts = PromptParts(<<>>, <<>>)
    /\ openai_tool_calls = <<>>
    /\ openai_sends = 0

InitRunsIdle ==
    /\ runs = 0
    /\ quota_at_entry = FALSE
    /\ sends_at_entry = 0

NoInput == [kind |-> "none", line |-> "", error |-> ""]

\* no _execute_tool call is followed
NoTask ==
    [call |-> ToolCall("call_1", "read_file", "ok"), pc |-> "idle", gate |-> "none",
     func |-> NoFunction, invoked |-> FALSE, result |-> None, exc |-> None]

InitConfirmIdle ==
    /\ confirm_task = NoTask
    /\ confirm_input = NoInput
    /\ confirm_prompts = 0
    /\ confirm_inputs = 0

NoGeminiResponse ==
    [kind |-> "none", error |-> "", candidates |-> FALSE, finish_reason |-> "",
     content |-> FALSE, parts |-> <<>>]

InitTurnIdle ==
    /\ gemini_response = NoGeminiResponse
    /\ turn_pc = "idle"
    /\ turn_reply = [text |-> None, tool_calls |-> None]
    /\ turn_final = DefaultFinal
    /\ turn_history = <<>>
    /\ turn_dispatched = 0

InitModelsIdle ==
    /\ config_key = [a \in SharingAgents |-> 1]
    /\ models_kind = "gemini"
    /\ provider_cache = [k \in ProviderInstances |-> FALSE]
    /\ provider_model = [k \in ProviderInstances |-> ""]
    /\ agent_model = [a \in SharingAgents |-> ""]
    /\ instantiated = 0
    /\ session_model = [a \in SharingAgents |-> None]
    /\ session_open = [a \in SharingAgents |-> FALSE]
    /\ model_request = None

InitReloadIdle ==
    /\ controller_tool_schemas = {}
    /\ controller_provider_schemas = None
    /\ coding_provider_schemas = None
    /\ reload_provider = "gemini"
    /\ reload_result = "none"

InitKillIdle ==
    /\ settings_high_risk = {}
    /\ kill_pid = "valid"
    /\ kill_exit = [raises |-> FALSE, success |-> TRUE, rc |-> 0, stderr |-> ""]
    /\ kill_pc = "idle"
    /\ escalation_prompts = 0
    /\ escalation_answer = <<>>
    /\ sudo_executed = FALSE
    /\ kill_output = <<>>

\* the harnesses of the other specifications at rest
InitHarness ==
    /\ InitExtract
    /\ InitRegistrations
    /\ InitCommandIdle
    /\ InitHttpIdle
    /\ InitTreeIdle
    /\ InitProviderIdle
    /\ InitOpenAIIdle
    /\ InitRunsIdle
    /\ InitConfirmIdle
    /\ InitTurnIdle
    /\ InitModelsIdle
    /\ InitReloadIdle
    /\ InitKillIdle

\* the harnesses other than the extraction of tool calls at rest
InitOtherThanExtract ==
    /\ InitRegistrations
    /\ InitCommandIdle
    /\ InitHttpIdle
    /\ InitTreeIdle
    /\ InitProviderIdle
    /\ InitOpenAIIdle
    /\ InitRunsIdle
    /\ InitConfirmIdle
    /\ InitTurnIdle
    /\ InitModelsIdle
    /\ InitReloadIdle
    /\ InitKillIdle

\* the harnesses other than the shared providers at rest
InitOtherThanConfirm ==
    /\ InitExtract
    /\ InitRegistrations
    /\ InitCommandIdle
    /\ InitHttpIdle
    /\ InitTreeIdle
    /\ InitProviderIdle
    /\ InitOpenAIIdle
    /\ InitRunsIdle
    /\ InitTurnIdle
    /\ InitModelsIdle
    /\ InitReloadIdle
    /\ InitKillIdle

InitOtherThanModels ==
    /\ InitExtract
    /\ InitRegistrations
    /\ InitCommandIdle
    /\ InitHttpIdle
    /\ InitTreeIdle
    /\ InitProviderIdle
    /\ InitOpenAIIdle
    /\ InitRunsIdle
    /\ InitTurnIdle
    /\ InitConfirmIdle
    /\ InitReloadIdle
    /\ InitKillIdle

InitOtherThanReload ==
    /\ InitExtract
    /\ InitRegistrations
    /\ InitCommandIdle
    /\ InitHttpIdle
    /\ InitTreeIdle
    /\ InitProviderIdle
    /\ InitOpenAIIdle
    /\ InitRunsIdle
    /\ InitTurnIdle
    /\ InitConfirmIdle
    /\ InitModelsIdle
    /\ InitKillIdle

InitOtherThanKill ==
    /\ InitExtract
    /\ InitRegistrations
    /\ InitCommandIdle
    /\ InitHttpIdle
    /\ InitTreeIdle
    /\ InitProviderIdle
    /\ InitOpenAIIdle
    /\ InitRunsIdle
    /\ InitTurnIdle
    /\ InitConfirmIdle
    /\ InitModelsIdle
    /\ InitReloadIdle

InitOtherThanProvider ==
    /\ InitExtract
    /\ InitRegistrations
    /\ InitCommandIdle
    /\ InitHttpIdle
    /\ InitTreeIdle
    /\ InitOpenAIIdle
    /\ InitRunsIdle
    /\ InitConfirmIdle
    /\ InitTurnIdle
    /\ InitModelsIdle
    /\ InitReloadIdle
    /\ InitKillIdle

InitWeb ==
    /\ active_sessions = [s \in Sessions |-> None]
    /\ requests = [r \in Requests |-> NewRequest]
    /\ directory = [p \in Paths |-> 0]
    /\ inodes = [n \in Requests |-> <<>>]
    /\ clock = 0
    /\ crashed = FALSE

\* -------------------------------------------------------------------- Init
InitAgent ==
    /\ history = <<>>
    /\ total_prompt_tokens = 0
    /\ total_completion_tokens = 0
    /\ last_prompt_tokens = None
    /\ last_completion_tokens = None
    /\ pc = "idle"
    /\ tool_round = 0
    /\ final_response = DefaultFinal
    /\ current_prompt_parts = PromptParts(<<>>, <<>>)
    /\ load_state = FALSE
    /\ save_state = FALSE
    /\ returned = None
    /\ raised = None
    /\ stdin_read = 0
    /\ stdin_closed = FALSE
    /\ tool_tasks = <<>>
    /\ send_count = 0
    /\ api_outcome = NoCallYet

Init ==
    /\ TOOL_REGISTRY = StartupRegistry
    /\ registry_schema = StartupSchemas
    /\ allowed_tools = DefaultAllowed
    /\ agent_tool_functions = PrepareAllowedTools(TOOL_REGISTRY, allowed_tools)
    /\ MAX_GLOBAL_TOKENS \in {0, Quota}
    /\ script \in Scripts
    /\ state_file \in StateFiles
    /\ specialist_agents = {}
    /\ specialist_reply = NoSpecialist
    /\ InitWeb
    /\ InitHarness
    /\ InitAdapter
    /\ InitAgent

\* ------------------------------------------------- the tasks of one turn
\* one asyncio task running _execute_tool(call)
NewTask(tc) ==
    [call |-> tc, pc |-> "created", gate |-> "none", func |-> NoFunction,
     invoked |-> FALSE, result |-> None, exc |-> None]

Finished(t, res) == [t EXCEPT !.pc = "done", !.result = Some(res)]

\* agent.py:246-262 up to the callable's first await: the call itself
\* fails with TypeError when the arguments cannot be bound
Invoke(t) ==
    IF ~IsMapping(t.call.arguments)
    THEN IF Caught(ToolHandlers, "TypeError")
         THEN Finished(t, TypeErrorResult(t.call))
         ELSE [t EXCEPT !.pc = "raised", !.exc = Some(Exc("TypeError", ExceptionMessage(t.call)))]
    ELSE IF t.call.arguments = "bad_kwargs"
    THEN IF Caught(ToolHandlers, "TypeError")
         THEN Finished([t EXCEPT !.invoked = TRUE], TypeErrorResult(t.call))
         ELSE [t EXCEPT !.invoked = TRUE, !.pc = "raised",
                        !.exc = Some(Exc("TypeError", ExceptionMessage(t.call)))]
    ELSE [t EXCEPT !.invoked = TRUE, !.pc = "running"]

\* ask_confirmation_async up to its first await, tool_utils.py:390-409
GateEnter(t) ==
    IF t.call.name \notin HIGH_RISK_TOOLS THEN Invoke([t EXCEPT !.gate = "approved"])
    ELSE IF ~IsMapping(t.call.arguments)
    THEN [t EXCEPT !.gate = "raised", !.pc = "raised", !.exc = Some(Exc("AttributeError", AttributeErrorMessage))]
    ELSE [t EXCEPT !.gate = "asked", !.pc = "gate_wait"]

\* _execute_tool from its entry to its first await, agent.py:219-250
ExecuteToolEntry(t, functions, allowed) ==
    LET f == functions[t.call.name] IN
    IF f = NoFunction THEN Finished(t, LookupErrorResult(t.call, allowed))
    ELSE IF NeedsConfirmation(t.call.name) THEN GateEnter([t EXCEPT !.func = f])
    ELSE Invoke([t EXCEPT !.func = f])

\* the mutant takes every answer but "no" for a yes
GateOnLineUnlessNo(t, line) ==
    LET confirm == LowerStrip(line) IN
    IF confirm = "no" THEN Finished([t EXCEPT !.gate = "declined"], DeclinedResult(t.call))
    ELSE Invoke([t EXCEPT !.gate = "approved"])

\* the gate resumes with the operator's line, tool_utils.py:409-421
GateOnLine(t, line) ==
    LET confirm == LowerStrip(line) IN
    IF confirm = "yes" THEN Invoke([t EXCEPT !.gate = "approved"])
    ELSE IF confirm = "no" THEN Finished([t EXCEPT !.gate = "declined"], DeclinedResult(t.call))
    ELSE t

\* input() raised: EOFError or any other exception, tool_utils.py:423-430
GateOnInputError(t, e) ==
    IF Caught(GateInputHandlers, e)
    THEN Finished([t EXCEPT !.gate = "no_input"], DeclinedResult(t.call))
    ELSE [t EXCEPT !.gate = "raised", !.pc = "raised", !.exc = Some(Exc(e, <<"input failed">>))]

\* the callable's coroutine ends: it returns or raises, agent.py:250-264
ToolEnds(t) ==
    IF t.call.arguments = "fails"
    THEN IF Caught(ToolHandlers, "RuntimeError")
         THEN Finished(t, ExceptionResult(t.call))
         ELSE [t EXCEPT !.pc = "raised",
                        !.exc = Some(Exc("RuntimeError", ExceptionMessage(t.call)))]
    ELSE Finished(t, SuccessResult(t.call))

\* a task starts running
TaskStart(i) ==
    /\ i \in DOMAIN tool_tasks
    /\ tool_tasks[i].pc = "created"
    /\ tool_tasks' = [tool_tasks EXCEPT
                        ![i] = ExecuteToolEntry(@, agent_tool_functions, allowed_tools)]
    /\ UNCHANGED <<registryVars, tokenVars, envVars, runVars>>

\* the operator answers a prompt; any thread blocked in input() may get the line
GateAnswer(i) ==
    /\ i \in DOMAIN tool_tasks
    /\ tool_tasks[i].pc = "gate_wait"
    /\ ~stdin_closed
    /\ stdin_read < MaxStdinLines
    /\ \E line \in InputLines :
         tool_tasks' = [tool_tasks EXCEPT ![i] = GateOnLine(@, line)]
    /\ stdin_read' = stdin_read + 1
    /\ UNCHANGED <<registryVars, tokenVars, MAX_GLOBAL_TOKENS, script, stdin_closed, runVars,
                   specialist_agents, specialist_reply, webVars, adapterVars, harnessVars>>

\* input() fails: end of input or an error of the read; either way stdin
\* gives no further line
GateInputFails(i) ==
    /\ i \in DOMAIN tool_tasks
    /\ tool_tasks[i].pc = "gate_wait"
    /\ \E e \in {"EOFError", "OSError"} :
         /\ tool_tasks' = [tool_tasks EXCEPT ![i] = GateOnInputError(@, e)]
         /\ stdin_closed' = TRUE
    /\ UNCHANGED <<registryVars, tokenVars, MAX_GLOBAL_TOKENS, script, stdin_read, runVars,
                   specialist_agents, specialist_reply, webVars, adapterVars, harnessVars>>

\* a running callable finishes
ToolCompletes(i) ==
    /\ i \in DOMAIN tool_tasks
    /\ tool_tasks[i].pc = "running"
    /\ tool_tasks' = [tool_tasks EXCEPT ![i] = ToolEnds(@)]
    /\ UNCHANGED <<registryVars, tokenVars, envVars, runVars>>

\* ------------------------------------------------------------ BaseAgent.run
\* what reading the state file can raise when it is there but unusable
LoadFailures == {"JSONDecodeError", "PermissionError", "UnicodeDecodeError"}

\* what the vendor SDK can raise when a session is opened
StartFailures == {"ConnectionError"}

\* what writing the state file can raise
SaveFailures == {"PermissionError", "OSError", "TypeError"}

RunArgs == [load_state : BOOLEAN, save_state : BOOLEAN]

\* run() from its entry to the await of start_chat, agent.py:280-304;
\* _load_state, agent.py:132-179, gives the stored list or a fresh history
Run ==
    /\ pc = "idle"
    /\ \E args \in RunArgs :
       \E e \in LoadFailures :
         LET unreadable == args.load_state /\ state_file.kind = "corrupt"
             \* state_file.exists() is called outside the try, agent.py:135
             exists_raises == args.load_state /\ state_file.kind = "unsearchable"
             loaded == IF args.load_state THEN LoadedHistory(state_file) ELSE <<>>
         IN /\ load_state' = args.load_state
            /\ save_state' = args.save_state
            /\ IF exists_raises \/ (unreadable /\ ~Caught(LoadStateHandlers, e))
               THEN /\ raised' = Some(IF exists_raises THEN "PermissionError" ELSE e)
                    /\ pc' = "done"
                    /\ UNCHANGED history
               ELSE /\ history' = Append(loaded, ChatMessage("user", <<TextPart(UserPrompt)>>))
                    /\ pc' = "start_chat"
                    /\ UNCHANGED raised
    /\ tool_round' = 0
    /\ final_response' = DefaultFinal
    /\ UNCHANGED <<registryVars, tokenVars, envVars, current_prompt_parts, returned,
                   state_file, send_count, tool_tasks, api_outcome>>

\* start_chat returns or raises, agent.py:299-310
StartChat ==
    /\ pc = "start_chat"
    /\ \/ /\ pc' = "loop"
          /\ current_prompt_parts' = PromptParts(<<UserPrompt>>, <<>>)
          /\ UNCHANGED <<returned, raised>>
       \/ \E e \in StartFailures :
            /\ pc' = "done"
            /\ IF Caught(StartChatHandlers, e)
               THEN /\ returned' = Some(StartErrorText(<<e>>))
                    /\ UNCHANGED raised
               ELSE /\ raised' = Some(e)
                    /\ UNCHANGED returned
            /\ UNCHANGED current_prompt_parts
    /\ UNCHANGED <<registryVars, tokenVars, envVars, history, tool_round, final_response,
                   load_state, save_state, state_file, send_count, tool_tasks, api_outcome>>

\* the mutant runs one round too many
LoopContinuesInclusive(round) == round <= max_tool_rounds

\* while tool_round < max_tool_rounds, agent.py:312
LoopContinues(round) == round < max_tool_rounds

\* the mutant stops only once the quota is exceeded
QuotaExceededStrict(total, quota) == quota > 0 /\ total > quota

\* the token quota check, agent.py:318-330
QuotaExceeded(total, quota) == quota > 0 /\ total >= quota

\* the head of the loop up to the await of send_message, agent.py:312-338
LoopHead ==
    /\ pc = "loop"
    /\ IF LoopContinues(tool_round)
       THEN /\ tool_round' = tool_round + 1
            /\ IF QuotaExceeded(total_prompt_tokens + total_completion_tokens,
                                MAX_GLOBAL_TOKENS)
               THEN /\ final_response' = QuotaText
                    /\ pc' = "end_loop"
                    /\ UNCHANGED send_count
               ELSE /\ pc' = "awaiting_model"
                    /\ send_count' = send_count + 1
                    /\ UNCHANGED final_response
       ELSE /\ pc' = "end_loop"
            /\ UNCHANGED <<tool_round, final_response, send_count>>
    /\ UNCHANGED <<registryVars, tokenVars, envVars, history, current_prompt_parts,
                   load_state, save_state, returned, raised, state_file, tool_tasks, api_outcome>>

\* the replies the model can give in one turn: the tool calls of its script,
\* or a reply that ends the conversation (an SDK failure, or a response that
\* asks for no tool)
ToolTurnOutcomes ==
    { ApiResponse(TRUE, script.content, script.batch, "tool_calls", TRUE) }

FinalOutcomes ==
    { ApiError(k) : k \in ApiErrors }
    \cup { ApiResponse(TRUE, Some(<<"final answer">>), <<>>, "stop", u) : u \in BOOLEAN }
    \cup { ApiResponse(TRUE, c, <<>>, "stop", FALSE) : c \in {None, Some(<<>>)} }
    \cup { ApiResponse(TRUE, Some(<<"partial answer">>), <<>>, "length", TRUE),
           ApiResponse(TRUE, None, <<>>, "content_filter", TRUE),
           ApiResponse(FALSE, None, <<>>, "", TRUE) }

\* the mutant keeps the usage of the last call only
AddUsageLastOnly(total, last) == IF last = None THEN 0 ELSE last[1]

\* total += last if last is not None, agent.py:344-345
AddUsage(total, last) == IF last = None THEN total ELSE total + last[1]

\* the mutant records the text of a turn only
ModelPartsTextOnly(text, calls) ==
    IF text # None THEN <<TextPart(text[1])>>
    ELSE IF calls # None THEN <<TextPart(<<>>)>> ELSE <<>>

\* the parts of the assistant message, agent.py:349-351
ModelParts(text, calls) ==
    (IF text # None THEN <<TextPart(text[1])>> ELSE <<>>)
    \o (IF calls # None THEN <<ToolCallsPart(calls[1])>> ELSE <<>>)

\* send_message returns: token counts, the assistant message, then either
\* the end of the loop or the tasks of the turn, agent.py:334-369
ModelReply ==
    /\ pc = "awaiting_model"
    /\ \E outcome \in ToolTurnOutcomes \cup FinalOutcomes :
         LET reply == send_message(outcome, last_prompt_tokens, last_completion_tokens)
             model_parts == ModelParts(reply.text, reply.tool_calls)
         IN /\ api_outcome' = outcome
            /\ last_prompt_tokens' = reply.last_prompt
            /\ last_completion_tokens' = reply.last_completion
            /\ total_prompt_tokens' = AddUsage(total_prompt_tokens, reply.last_prompt)
            /\ total_completion_tokens' = AddUsage(total_completion_tokens, reply.last_completion)
            /\ IF model_parts = <<>>
               THEN /\ final_response' = NoContentText
                    /\ pc' = "end_loop"
                    /\ UNCHANGED <<history, tool_tasks>>
               ELSE /\ history' = Append(history, ChatMessage("assistant", model_parts))
                    /\ IF reply.tool_calls = None
                       THEN /\ final_response' =
                                 (IF reply.text # None THEN reply.text[1] ELSE NoFinalText)
                            /\ pc' = "end_loop"
                            /\ UNCHANGED tool_tasks
                       ELSE /\ tool_tasks' = [i \in 1..Len(reply.tool_calls[1]) |->
                                                NewTask(reply.tool_calls[1][i])]
                            /\ pc' = "gather"
                            /\ UNCHANGED final_response
    /\ UNCHANGED <<registryVars, envVars, tool_round, current_prompt_parts, load_state, save_state,
                   returned, raised, state_file, send_count>>

\* the mutant waits for the first task only
GatherFirstCompleted(tasks) == <<tasks[1].result[1]>>

\* what asyncio.gather returns: the tasks' results in the order of the tasks
GatherResults(tasks) == [i \in 1..Len(tasks) |-> tasks[i].result[1]]

\* gather returns once every task has returned, agent.py:369-374
GatherReturns ==
    /\ pc = "gather"
    /\ \A i \in DOMAIN tool_tasks : tool_tasks[i].pc = "done"
    /\ LET tool_results == GatherResults(tool_tasks)
       IN /\ history' = IF tool_results # <<>>
                        THEN Append(history,
                                    ChatMessage("tool", [i \in DOMAIN tool_results |->
                                                           ToolResultPart(tool_results[i])]))
                        ELSE history
          /\ current_prompt_parts' = PromptParts(<<>>, tool_results)
    /\ pc' = "loop"
    /\ UNCHANGED <<registryVars, tokenVars, envVars, tool_round, final_response, load_state, save_state,
                   returned, raised, state_file, send_count, tool_tasks, api_outcome>>

\* gather re-raises the exception of a task that raised; the other tasks are
\* left running, agent.py:369, 376-379
GatherRaises ==
    /\ pc = "gather"
    /\ \E i \in DOMAIN tool_tasks :
         /\ tool_tasks[i].pc = "raised"
         /\ LET e == tool_tasks[i].exc[1]
            IN IF Caught(LoopHandlers, e.cls)
               THEN /\ final_response' = LoopErrorText(tool_round, e.msg)
                    /\ pc' = "end_loop"
                    /\ UNCHANGED raised
               ELSE /\ raised' = Some(e.cls)
                    /\ pc' = "done"
                    /\ UNCHANGED final_response
    /\ UNCHANGED <<registryVars, tokenVars, envVars, history, tool_round,
                   current_prompt_parts, load_state, save_state, returned, state_file, send_count,
                   tool_tasks, api_outcome>>

\* index of the last assistant message of a history, 0 if there is none
LastAssistant(h) ==
    LET idx == {i \in DOMAIN h : h[i].role = "assistant"}
    IN IF idx = {} THEN 0 ELSE CHOOSE i \in idx : \A j \in idx : j <= i

\* the response after the loop, agent.py:382-390
AfterLoop(h, round, final) ==
    IF round >= max_tool_rounds /\ final = DefaultFinal /\ LastAssistant(h) # 0
    THEN get_text_content(h[LastAssistant(h)]) \o MaxRoundsWarning
    ELSE final

\* the end of run(): the max-rounds fallback, _save_state and the return,
\* agent.py:381-398 and 181-211
Finish ==
    /\ pc = "end_loop"
    /\ final_response' = AfterLoop(history, tool_round, final_response)
    /\ pc' = "done"
    /\ \/ /\ ~(save_state /\ state_file.kind = "unsearchable")
          /\ state_file' = IF save_state /\ history # <<>> THEN ListFile(ToJson(history))
                           ELSE state_file
          /\ returned' = Some(final_response')
          /\ UNCHANGED raised
       \/ /\ save_state /\ history # <<>>
          /\ \E e \in SaveFailures :
               IF Caught(SaveStateHandlers, e)
               THEN /\ returned' = Some(final_response')
                    /\ UNCHANGED raised
               ELSE /\ raised' = Some(e)
                    /\ UNCHANGED returned
          /\ UNCHANGED state_file
    /\ UNCHANGED <<registryVars, tokenVars, envVars, history, tool_round,
                   current_prompt_parts, load_state, save_state, send_count, tool_tasks, api_outcome>>

TaskStep ==
    \E i \in DOMAIN tool_tasks :
        TaskStart(i) \/ GateAnswer(i) \/ GateInputFails(i) \/ ToolCompletes(i)

Next ==
    \/ Run
    \/ StartChat
    \/ LoopHead
    \/ ModelReply
    \/ GatherReturns
    \/ GatherRaises
    \/ Finish
    \/ TaskStep

Spec == Init /\ [][Next]_vars

\* the scheduling the event loop gives: a coroutine that can resume does
\* resume, the vendor call and every callable return or raise, and the
\* operator sooner or later answers a prompt or closes stdin
FairSpec == Spec /\ WF_vars(Next)

\* ------------------------------------ registrations and hot reloads
\* the tool modules of the package and the names each registers
ToolModules ==
    { {"read_file", "edit_file"}, {"run_shell_command", "kill_process"} }

\* the calls a model may ask an agent to dispatch
DispatchCalls ==
    { ToolCall("call_1", n, a) : n \in ToolNames, a \in {"ok", "fails", "not_mapping"} }

\* a decorator runs (a module is imported or reloaded by other means than
\* !reload): the registry changes, no agent is refreshed
RegisterTool(name) ==
    /\ name \in ToolNames
    /\ TOOL_REGISTRY[name] < MaxVersion
    /\ TOOL_REGISTRY' = register_tool(TOOL_REGISTRY, name, TOOL_REGISTRY[name] + 1)
    /\ registry_schema' = register_schema(registry_schema, name,
                              ToolSchema(name, TOOL_REGISTRY'[name], None, "None"))
    /\ UNCHANGED <<allowed_tools, agent_tool_functions, tokenVars, envVars, runVars,
                   tool_tasks>>

RECURSIVE RegisterAll(_, _)
\* importlib.reload re-runs every decorator of the module
RegisterAll(registry, names) ==
    IF names = {} THEN registry
    ELSE LET n == CHOOSE x \in names : TRUE
         IN RegisterAll(register_tool(registry, n, registry[n] + 1), names \ {n})

\* !reload of a tool module: the module is re-imported, discovery runs again
\* and the agent filters the registry anew
HandleReload(module) ==
    /\ module \in ToolModules
    /\ \A n \in module : TOOL_REGISTRY[n] < MaxVersion
    /\ TOOL_REGISTRY' = RegisterAll(TOOL_REGISTRY, module)
    /\ registry_schema' =
           [n \in ToolNames |-> IF n \in module
                                THEN Some(ToolSchema(n, TOOL_REGISTRY'[n], None, "None"))
                                ELSE registry_schema[n]]
    /\ agent_tool_functions' = PrepareAllowedTools(TOOL_REGISTRY', allowed_tools)
    /\ UNCHANGED <<allowed_tools, tokenVars, envVars, runVars, tool_tasks>>

\* a model turn asks for one call and the agent creates its task
Dispatch(tc) ==
    /\ tc \in DispatchCalls
    /\ \A i \in DOMAIN tool_tasks : tool_tasks[i].pc \in {"done", "raised"}
    /\ tool_tasks' = <<NewTask(tc)>>
    /\ UNCHANGED <<registryVars, tokenVars, envVars, runVars>>

\* the allow-lists of the agents a session builds
AllowLists == {DefaultAllowed, {"read_file", "kill_process"}, {}}

InitTools ==
    /\ TOOL_REGISTRY = StartupRegistry
    /\ registry_schema = StartupSchemas
    /\ allowed_tools \in AllowLists
    /\ agent_tool_functions = PrepareAllowedTools(TOOL_REGISTRY, allowed_tools)
    /\ MAX_GLOBAL_TOKENS = 0
    /\ script = [batch |-> <<>>, content |-> None]
    /\ state_file = AbsentFile
    /\ specialist_agents = {}
    /\ specialist_reply = NoSpecialist
    /\ InitWeb
    /\ InitHarness
    /\ InitAdapter
    /\ InitAgent

NextTools ==
    \/ \E name \in ToolNames : RegisterTool(name)
    \/ \E module \in ToolModules : HandleReload(module)
    \/ \E tc \in DispatchCalls : Dispatch(tc)
    \/ TaskStep

SpecTools == InitTools /\ [][NextTools]_vars

\* ------------------------------------------------------------- the claims
\* the tasks of the turn in flight or last dispatched
Tasks == {tool_tasks[i] : i \in DOMAIN tool_tasks}

\* C1: an allowed, implemented tool that is high-risk has its callable
\* invoked only once the confirmation gate was asked and returned True; for a
\* tool that is not high-risk the gate is never invoked.
C1_GateBeforeCallable ==
    \A t \in Tasks :
        /\ (t.call.name \in HIGH_RISK_TOOLS /\ t.invoked) => t.gate = "approved"
        /\ (t.call.name \in HIGH_RISK_TOOLS /\ t.func # NoFunction) => t.gate # "none"
        /\ t.call.name \notin HIGH_RISK_TOOLS => t.gate = "none"

C1_Witness ==
    /\ \E t \in Tasks :
         t.call.name \in HIGH_RISK_TOOLS /\ t.gate = "approved" /\ t.invoked /\ t.pc = "done"
    /\ \E t \in Tasks :
         t.call.name \notin HIGH_RISK_TOOLS /\ t.invoked /\ t.pc = "done"

\* the assistant message of the last tool turn and the message after it
LastToolTurn(h) ==
    LET idx == {i \in DOMAIN h : h[i].role = "assistant"
                                 /\ \E k \in DOMAIN h[i].parts : h[i].parts[k].type = "tool_calls"}
    IN IF idx = {} THEN 0 ELSE CHOOSE i \in idx : \A j \in idx : j <= i

\* the ToolResults a tool message holds, in the order of its parts
ResultsOf(msg) == [i \in DOMAIN msg.parts |-> msg.parts[i].results[1]]

CallsOf(msg) ==
    LET k == CHOOSE k \in DOMAIN msg.parts : msg.parts[k].type = "tool_calls"
    IN msg.parts[k].calls

\* the run has gathered a batch and is about to make, or is making, the next call
BatchFed == tool_round >= 1 /\ (pc = "loop" \/ (pc = "awaiting_model" /\ tool_round >= 2))

ToolTurns(h) ==
    Cardinality({i \in DOMAIN h : h[i].role = "assistant"
                                  /\ \E k \in DOMAIN h[i].parts : h[i].parts[k].type = "tool_calls"})

EndsWithMaxRoundsWarning(text) ==
    /\ Len(text) >= 1
    /\ SubSeq(text, Len(text), Len(text)) = MaxRoundsWarning

\* the run returned and every turn of the model asked for tools
AlwaysToolsRunOver ==
    pc = "done" /\ send_count >= 1 /\ ToolTurns(history) = send_count

IsLoopErrorText(text) == Len(text) >= 1 /\ text[1] = "[Error occurred in agent "

QuotaReached ==
    MAX_GLOBAL_TOKENS > 0
    /\ total_prompt_tokens + total_completion_tokens >= MAX_GLOBAL_TOKENS

\* C4: with a quota Q > 0 configured, a turn that begins with the running
\* totals at or above Q issues no send_message call and dispatches no tool,
\* and the run returns the quota-exceeded text.
C4_QuotaStopsTurn ==
    /\ [][(pc = "loop" /\ LoopContinues(tool_round) /\ QuotaReached)
            => /\ pc' = "end_loop"
               /\ final_response' = QuotaText
               /\ UNCHANGED <<send_count, tool_tasks, history>>]_vars
    /\ [][(pc = "end_loop" /\ final_response = QuotaText /\ pc' # pc)
            => /\ pc' = "done"
               /\ returned' = Some(QuotaText)
               /\ UNCHANGED <<send_count, history>>]_vars
    /\ [](final_response = QuotaText => pc \in {"end_loop", "done"})

C4_Witness ==
    /\ pc = "done" /\ QuotaReached
    /\ returned = Some(QuotaText)
    /\ send_count >= 1

\* C5: run never raises: a failure of the state load, of the session
\* start, of the model call, of a tool dispatch, of the confirmation gate or
\* of the state save ends in a returned string.
C5_RunNeverRaises ==
    /\ raised = None
    /\ pc = "done" => (returned # None /\ Len(returned[1]) >= 1)

\* C6: across registrations and hot reloads _execute_tool invokes a callable
\* only for a name of the agent's allowed_tools; a call whose name is not
\* allowed, or has no implementation in the registry, gets a ToolResult with
\* is_error True, and neither a callable nor the gate is invoked.
C6_OnlyAllowedToolsRun ==
    \A t \in Tasks :
        /\ t.invoked => (t.call.name \in allowed_tools /\ t.func # NoFunction)
        /\ (t.pc # "created"
            /\ (t.call.name \notin allowed_tools \/ TOOL_REGISTRY[t.call.name] = NoFunction))
           => /\ t.pc = "done"
              /\ t.result[1].is_error /\ t.result[1].error # None
              /\ ~t.invoked
              /\ t.gate = "none"

\* after a hot reload that re-registered it, a registered high-risk tool
\* outside the allow-list was asked for and refused
C6_Witness ==
    \E t \in Tasks :
        /\ t.call.name = "kill_process" /\ t.call.name \notin allowed_tools
        /\ TOOL_REGISTRY["kill_process"] >= 2
        /\ agent_tool_functions["run_shell_command"] >= 2
        /\ t.pc = "done" /\ t.result[1].is_error /\ ~t.invoked /\ t.gate = "none"

\* the call reached the callable and the callable (or its invocation) raised
CallableRaised(t) ==
    /\ t.func # NoFunction
    /\ t.gate \in {"none", "approved"}
    /\ t.pc \in {"done", "raised"}
    /\ t.call.arguments \notin {"ok", "missing_file"}

\* C7: an exception raised while _execute_tool runs a tool's callable does
\* not leave _execute_tool: the call yields a ToolResult with is_error True
\* whose error text holds the exception's message; no such exception makes
\* gather raise or fires the loop's handler, so the loop goes on.
C7_CallableExceptionContained ==
    /\ \A t \in Tasks :
         /\ CallableRaised(t) =>
              /\ t.pc = "done"
              /\ t.result[1].is_error
              /\ t.result[1].error # None
              /\ Contains(t.result[1].error[1], ExceptionMessage(t.call))
         /\ t.pc = "raised" => t.gate = "raised"
    /\ (pc \in {"end_loop", "done"} /\ IsLoopErrorText(final_response))
         => \E t \in Tasks : t.gate = "raised"

\* the next model turn was asked with the result of a callable that raised
C7_Witness ==
    /\ pc = "awaiting_model" /\ tool_round >= 2
    /\ \E t \in Tasks : CallableRaised(t) /\ t.invoked /\ t.call.arguments = "fails"
    /\ \E i \in DOMAIN current_prompt_parts.results :
         /\ current_prompt_parts.results[i].is_error
         /\ Contains(current_prompt_parts.results[i].error[1],
                     ExceptionMessage(tool_tasks[i].call))

\* C8: when the operator declines a high-risk call, _execute_tool returns a
\* ToolResult with is_error False, error None and a result text saying the
\* execution was cancelled, and the callable is never invoked.
C8_DeclineIsNotAnError ==
    \A t \in Tasks :
        t.gate = "declined" =>
            /\ t.pc = "done"
            /\ ~t.invoked
            /\ t.result[1].is_error = FALSE
            /\ t.result[1].error = None
            /\ t.result[1].result = Some(CancelledText(t.call.name))
            /\ t.result[1].id = t.call.id

C8_Witness ==
    \E t \in Tasks :
        /\ t.call.name \in HIGH_RISK_TOOLS /\ t.gate = "declined"
        /\ t.pc = "done" /\ ~t.result[1].is_error

\* C9 as stated: a task that fails never changes what becomes of the others:
\* once the run has left the gather of a batch, every task of the batch that
\* returned has its own ToolResult in the tool message of that turn.
C9_SiblingResultsKept ==
    (pc \in {"loop", "end_loop", "done"} /\ Tasks # {} /\ LastToolTurn(history) # 0) =>
        LET k == LastToolTurn(history) + 1
        IN \A i \in DOMAIN tool_tasks :
             tool_tasks[i].pc = "done" =>
               /\ k <= Len(history)
               /\ history[k].role = "tool"
               /\ i \in DOMAIN history[k].parts
               /\ ResultsOf(history[k])[i] = tool_tasks[i].result[1]

\* the vendor call of the last send_message failed
SendFailed ==
    \/ api_outcome.kind = "error"
    \/ api_outcome.kind = "response" /\ api_outcome.choices
       /\ api_outcome.finish_reason = "content_filter"

SendFailureText ==
    IF api_outcome.kind = "error" THEN ProviderErrorText(api_outcome.error)
    ELSE ContentFilterText

SPECIALIST_TOOL_NAME == "delegate_task"

\* the specialists a session builds for its Controller
SpecialistNames == {"CodingAgent", "SysAdminAgent"}

\* ', '.join(names) for the names of the specialists
JoinedSpecialists == <<"CodingAgent", ", ", "SysAdminAgent">>

\* the arguments of a delegate_task call as the model sends them
DelegateArgs(mapping, agent_name, user_prompt) ==
    [mapping |-> mapping, agent_name |-> agent_name, user_prompt |-> user_prompt]

DelegateCall(id, agent_name) ==
    ToolCall(id, SPECIALIST_TOOL_NAME, DelegateArgs(TRUE, Some(agent_name), Some(UserPrompt)))

NotFoundText(agent_name) ==
    <<"[Error: Specialist agent '", agent_name, "' not found. Please choose one of: ">>
    \o JoinedSpecialists \o <<"]">>

SpecialistRaisedText(agent_name, e) ==
    <<"[Error: An unexpected error occurred while running specialist agent '",
      agent_name, "': ">> \o e \o <<"]">>

\* first tokens of the texts of the program that begin with "[Error:"
ErrorTaggedTokens ==
    (BracketOpenTokens \ {"[Error communicating with OpenAI: "})
    \cup { "[Error: Token quota exceeded.]",
           "[Error: LLM provided no response content.]",
           "[Error: Failed to start chat session with LLM provider: ",
           "[Error: Specialist agent '",
           "[Error: An unexpected error occurred while running specialist agent '" }

\* result_str.startswith("[Error:")
StartsWithErrorTag(text) == Len(text) >= 1 /\ text[1] \in ErrorTaggedTokens

\* what a specialist's run can come to: a string it returns, or an exception
SpecialistOutcomes ==
    { [kind |-> "returns", text |-> t] :
        t \in { <<"specialist answer">>, <<>>, QuotaText, NoContentText,
                ProviderErrorText("RateLimitError"), MaxRoundsWarning,
                LoopErrorText(1, AttributeErrorMessage) } }
    \cup { [kind |-> "raises", text |-> <<"cancelled">>] }

\* the ToolResult made of the string of _delegate_task_impl, controller.py:145-153
DelegationResult(tc, result_str) ==
    LET is_delegation_error == StartsWithErrorTag(result_str)
    IN ToolResult(tc.id, tc.name,
                  IF ~is_delegation_error THEN Some(result_str) ELSE None,
                  IF is_delegation_error THEN Some(result_str) ELSE None,
                  is_delegation_error)

UnexpectedToolText(name) ==
    <<"Controller received unexpected tool call '", name, "'. Only '",
      SPECIALIST_TOOL_NAME, "' is supported.">>

InvalidArgumentsText(e) ==
    <<"Internal delegation error: Invalid arguments provided. ">> \o e

UnexpectedDelegationText(e) == <<"Unexpected delegation error: ">> \o e

\* self.specialist_agents.get(agent_name) is truthy
LookupSpecialist(agents, agent_name) == agent_name \in agents

\* the mutant does not look at user_prompt before it delegates
ControllerExecuteToolUnchecked(t, agents) ==
    LET tc == t.call
        args == tc.arguments
    IN IF tc.name # SPECIALIST_TOOL_NAME
       THEN Finished(t, ToolResult(tc.id, tc.name, None,
                                   Some(UnexpectedToolText(tc.name)), TRUE))
       ELSE IF ~args.mapping
       THEN Finished(t, ToolResult(tc.id, tc.name, None,
                                   Some(UnexpectedDelegationText(AttributeErrorMessage)), TRUE))
       ELSE IF args.agent_name = None \/ args.agent_name = Some("")
       THEN Finished(t, ToolResult(tc.id, tc.name, None,
                Some(InvalidArgumentsText(
                       <<"Missing or invalid 'agent_name' argument for delegation.">>)), TRUE))
       ELSE IF LookupSpecialist(agents, args.agent_name[1])
       THEN [t EXCEPT !.invoked = TRUE, !.pc = "running"]
       ELSE Finished(t, DelegationResult(tc, NotFoundText(args.agent_name[1])))

\* ControllerAgent._execute_tool from its entry to the await of the
\* specialist's run, controller.py:119-141 and 96-116
ControllerExecuteToolEntry(t, agents) ==
    LET tc == t.call
        args == tc.arguments
    IN IF tc.name # SPECIALIST_TOOL_NAME
       THEN Finished(t, ToolResult(tc.id, tc.name, None,
                                   Some(UnexpectedToolText(tc.name)), TRUE))
       ELSE IF ~args.mapping
       THEN Finished(t, ToolResult(tc.id, tc.name, None,
                                   Some(UnexpectedDelegationText(AttributeErrorMessage)), TRUE))
       ELSE IF args.agent_name = None \/ args.agent_name = Some("")
       THEN Finished(t, ToolResult(tc.id, tc.name, None,
                Some(InvalidArgumentsText(
                       <<"Missing or invalid 'agent_name' argument for delegation.">>)), TRUE))
       ELSE IF args.user_prompt = None
       THEN Finished(t, ToolResult(tc.id, tc.name, None,
                Some(InvalidArgumentsText(
                       <<"Missing or invalid 'user_prompt' argument for delegation.">>)), TRUE))
       ELSE IF LookupSpecialist(agents, args.agent_name[1])
       THEN [t EXCEPT !.invoked = TRUE, !.pc = "running"]
       ELSE Finished(t, DelegationResult(tc, NotFoundText(args.agent_name[1])))

\* the specialist's run is over, controller.py:102-111 and 145-153
SpecialistEnds(t, outcome) ==
    LET result_str == IF outcome.kind = "returns" THEN outcome.text
                      ELSE SpecialistRaisedText(t.call.arguments.agent_name[1], outcome.text)
    IN Finished(t, DelegationResult(t.call, result_str))

\* a delegation task starts running
DelegateStart(i) ==
    /\ i \in DOMAIN tool_tasks
    /\ tool_tasks[i].pc = "created"
    /\ tool_tasks' = [tool_tasks EXCEPT ![i] = ControllerExecuteToolEntry(@, specialist_agents)]
    /\ UNCHANGED <<registryVars, tokenVars, envVars, runVars>>

\* the specialist's run returns or raises
DelegateReturns(i) ==
    /\ i \in DOMAIN tool_tasks
    /\ tool_tasks[i].pc = "running"
    /\ tool_tasks' = [tool_tasks EXCEPT ![i] = SpecialistEnds(@, specialist_reply)]
    /\ UNCHANGED <<registryVars, tokenVars, envVars, runVars>>

\* the batches a Controller's model may ask for
ControllerBatches ==
    { <<DelegateCall("call_1", "CodingAgent")>>,
      <<DelegateCall("call_1", "SecurityAgent")>>,
      <<DelegateCall("call_1", "CodingAgent"), DelegateCall("call_2", "SysAdminAgent")>>,
      <<ToolCall("call_1", SPECIALIST_TOOL_NAME, DelegateArgs(TRUE, None, Some(UserPrompt)))>>,
      <<ToolCall("call_1", SPECIALIST_TOOL_NAME, DelegateArgs(TRUE, Some("CodingAgent"), None))>>,
      <<ToolCall("call_1", SPECIALIST_TOOL_NAME, DelegateArgs(FALSE, None, None))>>,
      <<ToolCall("call_1", SPECIALIST_TOOL_NAME, DelegateArgs(TRUE, Some(""), Some(UserPrompt)))>>,
      <<ToolCall("call_1", "read_file", DelegateArgs(TRUE, None, None))>> }

ControllerScripts == { [batch |-> b, content |-> None] : b \in ControllerBatches }

InitController ==
    /\ TOOL_REGISTRY = StartupRegistry
    /\ registry_schema = StartupSchemas
    /\ allowed_tools = {SPECIALIST_TOOL_NAME}
    /\ agent_tool_functions = PrepareAllowedTools(TOOL_REGISTRY, allowed_tools)
    /\ MAX_GLOBAL_TOKENS \in {0, Quota}
    /\ script \in ControllerScripts
    /\ state_file = AbsentFile
    /\ specialist_agents = SpecialistNames
    /\ specialist_reply \in SpecialistOutcomes
    /\ InitWeb
    /\ InitHarness
    /\ InitAdapter
    /\ InitAgent

DelegateStep == \E i \in DOMAIN tool_tasks : DelegateStart(i) \/ DelegateReturns(i)

\* ControllerAgent inherits run(); its _execute_tool raises nothing, so the
\* gather of a turn always returns
NextController ==
    \/ Run
    \/ StartChat
    \/ LoopHead
    \/ ModelReply
    \/ GatherReturns
    \/ Finish
    \/ DelegateStep

SpecController == InitController /\ [][NextController]_vars

\* the call delegates, with usable arguments, to the name `n`
Delegates(tc, n) ==
    /\ tc.name = SPECIALIST_TOOL_NAME
    /\ tc.arguments.mapping
    /\ tc.arguments.agent_name = Some(n)
    /\ tc.arguments.user_prompt # None

\* the tool calls the model has made in the run
CallsMade(h) ==
    UNION { {CallsOf(h[i])[k] : k \in DOMAIN CallsOf(h[i])} :
              i \in {j \in DOMAIN h : h[j].role = "assistant"
                                      /\ \E k \in DOMAIN h[j].parts :
                                           h[j].parts[k].type = "tool_calls"} }

\* the results of the tool messages of the run
ResultsFed(h) ==
    UNION { {ResultsOf(h[i])[k] : k \in DOMAIN h[i].parts} :
              i \in {j \in DOMAIN h : h[j].role = "tool"} }

\* C11 as stated: a delegation naming a specialist outside the set gets an
\* error result that enumerates the specialists, no specialist's run is
\* invoked, and that error is the text ControllerAgent.run returns.
C11_UnknownSpecialistErrorReturned ==
    \A n \in {"SecurityAgent"} :
        /\ \A t \in Tasks :
             (Delegates(t.call, n) /\ t.pc # "created") =>
                /\ t.pc = "done" /\ ~t.invoked
                /\ t.result[1].is_error
                /\ t.result[1].error = Some(NotFoundText(n))
                /\ Contains(t.result[1].error[1], JoinedSpecialists)
        /\ (pc = "done" /\ returned # None
            /\ \E r \in ResultsFed(history) : r.error = Some(NotFoundText(n)))
           => returned = Some(NotFoundText(n))

\* C12 as stated: when the model delegated to a known specialist and that
\* specialist's run returned a string, ControllerAgent.run returns that string.
C12_SpecialistAnswerVerbatim ==
    (/\ pc = "done" /\ returned # None
     /\ specialist_reply.kind = "returns"
     /\ \E tc \in CallsMade(history) : \E n \in specialist_agents : Delegates(tc, n)
     /\ \E r \in ResultsFed(history) : r.name = SPECIALIST_TOOL_NAME)
    => returned = Some(specialist_reply.text)

\* C13 as stated: for a delegation naming a known specialist the result of
\* the delegation tool is exactly the string the specialist's run returned,
\* whatever that string is.
C13_DelegationResultIsSpecialistString ==
    \A t \in Tasks :
        (/\ \E n \in specialist_agents : Delegates(t.call, n)
         /\ t.pc = "done"
         /\ specialist_reply.kind = "returns")
        => /\ t.invoked
           /\ t.result[1].result = Some(specialist_reply.text)
           /\ ~t.result[1].is_error

\* the vendor call that just returned exposed no usage counters, or failed
\* before they were read
NoUsageRead(outcome) == outcome.kind = "error" \/ ~outcome.usage

\* C14 as stated: a model call that exposes no token usage, or fails before
\* usage is read, leaves both last counters None and adds nothing to the
\* agent's totals, whatever earlier calls reported.
C14_NoUsageAddsNothing ==
    [][(pc = "awaiting_model" /\ pc' # pc /\ NoUsageRead(api_outcome'))
         => /\ last_prompt_tokens' = None
            /\ last_completion_tokens' = None
            /\ UNCHANGED <<total_prompt_tokens, total_completion_tokens>>]_vars

\* ------------------------------------------------------------ C15 .. C18
\* the ToolResults a part carries, alone or as a list
CarriesResults(part) == part.type \in {"tool_result", "tool_results"}

\* two parts of the same kind with the same content
EquivalentParts(a, b) ==
    \/ a.type = "text" /\ b.type = "text" /\ a.text = b.text
    \/ a.type = "tool_calls" /\ b.type = "tool_calls" /\ a.calls = b.calls
    \/ CarriesResults(a) /\ CarriesResults(b) /\ a.results = b.results

\* C15: what _save_state writes for a history, read back by _load_state, has
\* the same number of messages in the same order, each with the same role
\* and equivalent parts (text, tool-call batches, tool-result batches).
C15_RoundTripPreservesHistory ==
    LET back == LoadedHistory(ListFile(ToJson(history)))
    IN /\ Len(back) = Len(history)
       /\ \A i \in DOMAIN history :
            /\ back[i].role = history[i].role
            /\ Len(back[i].parts) = Len(history[i].parts)
            /\ \A j \in DOMAIN history[i].parts :
                 EquivalentParts(history[i].parts[j], back[i].parts[j])

RECURSIVE KeepValid(_)
\* the records of a stored list that are well formed, in stored order
KeepValid(records) ==
    IF records = <<>> THEN <<>>
    ELSE (IF RecordValid(records[1]) THEN <<records[1]>> ELSE <<>>) \o KeepValid(Tail(records))

\* C18: loading a file of n records of which k are malformed gives the n-k
\* valid messages in stored order; an unreadable, non-JSON or non-list file
\* gives an empty history; loading never aborts the run.
C18_LoadKeepsValidRecords ==
    [][(pc = "idle" /\ pc' # pc /\ load_state')
         => /\ raised' = None
            /\ LET valid == IF state_file.kind = "list" THEN KeepValid(state_file.content)
                            ELSE <<>>
               IN /\ Len(history') = Len(valid) + 1
                  /\ \A i \in DOMAIN valid : history'[i] = MessageFromDict(valid[i])]_vars

\* ------------------------------------------------- the web server at work
\* get_session_controller, routes.py:84-109: the specialists are built with
\* session_id=session_id, the ControllerAgent without a session_id
NewAgentSystem(session_id) ==
    [session |-> session_id,
     specialist_files |-> { StateFileOf(Some(session_id), name) : name \in SpecialistNames },
     state_file |-> StateFileOf(None, "ControllerAgent"),
     history |-> <<>>]

\* every file the agents of one agent system load and save
FilesOf(system) == system.specialist_files \cup {system.state_file}

\* the message run() appends for the prompt of a session's request
PromptOf(session_id) == ChatMessage("user", <<TextPart(<<"prompt of ", session_id>>)>>)

\* the Controller model's answer to it
ReplyTo(session_id) == ChatMessage("assistant", <<TextPart(<<"reply to ", session_id>>)>>)

\* handle_prompt up to controller.run, routes.py:149-170: the session's
\* agent system is taken from active_sessions or built and cached
GetSessionController(r) ==
    /\ ~crashed
    /\ requests[r].pc = "new"
    /\ \E session_id \in Sessions :
         /\ requests' = [requests EXCEPT ![r].pc = "load", ![r].session = session_id]
         /\ active_sessions' =
              IF active_sessions[session_id] # None THEN active_sessions
              ELSE [active_sessions EXCEPT ![session_id] = Some(NewAgentSystem(session_id))]
    /\ UNCHANGED <<directory, inodes, clock, crashed>>

\* run(load_state=True): _load_state and the append of the prompt,
\* agent.py:285-292
LoadState(r) ==
    /\ ~crashed
    /\ requests[r].pc = "load"
    /\ LET session_id == requests[r].session
           controller == active_sessions[session_id][1]
           loaded == LoadedHistory(FileAt(controller.state_file, directory, inodes))
       IN active_sessions' =
            [active_sessions EXCEPT
               ![session_id] = Some([controller EXCEPT
                                       !.history = Append(loaded, PromptOf(session_id))])]
    /\ requests' = [requests EXCEPT ![r].pc = "model"]
    /\ UNCHANGED <<directory, inodes, clock, crashed>>

\* the awaited model call returns and its text is appended, agent.py:326-354
ModelAnswers(r) ==
    /\ ~crashed
    /\ requests[r].pc = "model"
    /\ LET session_id == requests[r].session
           controller == active_sessions[session_id][1]
       IN active_sessions' =
            [active_sessions EXCEPT
               ![session_id] = Some([controller EXCEPT
                                       !.history = Append(@, ReplyTo(session_id))])]
    /\ requests' = [requests EXCEPT ![r].pc = "save"]
    /\ UNCHANGED <<directory, inodes, clock, crashed>>

\* _save_state up to the open of the temporary file, agent.py:190-201:
\* open(temp_file, "w") creates the file or truncates the one of that name
SaveOpens(r) ==
    /\ ~crashed
    /\ requests[r].pc = "save"
    /\ LET controller == active_sessions[requests[r].session][1]
           temp_file == TempFileOf(controller.state_file, clock)
           fresh == CHOOSE n \in Requests :
                      /\ \A p \in Paths : directory[p] # n
                      /\ \A q \in Requests : requests[q].pc = "write" => requests[q].fd # n
           fd == IF directory[temp_file] # 0 THEN directory[temp_file] ELSE fresh
       IN IF controller.history = <<>>
          THEN /\ requests' = [requests EXCEPT ![r].pc = "done"]
               /\ UNCHANGED <<directory, inodes>>
          ELSE /\ requests' = [requests EXCEPT ![r].pc = "write", ![r].fd = fd,
                                               ![r].temp_file = temp_file,
                                               ![r].data = Dumps(ToJson(controller.history))]
               /\ directory' = [directory EXCEPT ![temp_file] = fd]
               /\ inodes' = [inodes EXCEPT ![fd] = <<>>]
    /\ UNCHANGED <<active_sessions, clock, crashed>>

\* write_text writes the document through its descriptor and closes it,
\* agent.py:201
SaveWrites(r) ==
    /\ ~crashed
    /\ requests[r].pc = "write"
    /\ inodes' = [inodes EXCEPT ![requests[r].fd] = Overlay(@, requests[r].data)]
    /\ requests' = [requests EXCEPT ![r].pc = "replace"]
    /\ UNCHANGED <<active_sessions, directory, clock, crashed>>

\* temp_file.replace(self.state_file), agent.py:202; with the name gone it
\* raises FileNotFoundError, which _save_state logs, agent.py:210-211
SaveReplaces(r) ==
    /\ ~crashed
    /\ requests[r].pc = "replace"
    /\ LET temp_file == requests[r].temp_file
           state_path == active_sessions[requests[r].session][1].state_file
       IN directory' =
            IF directory[temp_file] = 0 THEN directory
            ELSE [directory EXCEPT ![state_path] = directory[temp_file], ![temp_file] = 0]
    /\ requests' = [requests EXCEPT ![r].pc = "done"]
    /\ UNCHANGED <<active_sessions, inodes, clock, crashed>>

\* a second passes
Tick ==
    /\ ~crashed
    /\ clock < MaxClock
    /\ clock' = clock + 1
    /\ UNCHANGED <<active_sessions, requests, directory, inodes, crashed>>

\* the process dies while a request is inside _save_state
Crash ==
    /\ ~crashed
    /\ \E r \in Requests : requests[r].pc \in {"write", "replace"}
    /\ crashed' = TRUE
    /\ UNCHANGED <<active_sessions, requests, directory, inodes, clock>>

agentVars == <<registryVars, tokenVars, runVars, tool_tasks, MAX_GLOBAL_TOKENS, script,
               stdin_read, stdin_closed, specialist_agents, specialist_reply, adapterVars, harnessVars>>

RequestStep(r) ==
    \/ GetSessionController(r)
    \/ LoadState(r)
    \/ ModelAnswers(r)
    \/ SaveOpens(r)
    \/ SaveWrites(r)
    \/ SaveReplaces(r)

NextSessions ==
    \/ \E r \in Requests : RequestStep(r) /\ UNCHANGED agentVars
    \/ Tick /\ UNCHANGED agentVars
    \/ Crash /\ UNCHANGED agentVars

\* the server after start-up: no session yet, an empty state directory
InitSessions ==
    /\ TOOL_REGISTRY = StartupRegistry
    /\ registry_schema = StartupSchemas
    /\ allowed_tools = {SPECIALIST_TOOL_NAME}
    /\ agent_tool_functions = PrepareAllowedTools(TOOL_REGISTRY, allowed_tools)
    /\ MAX_GLOBAL_TOKENS = 0
    /\ script = [batch |-> <<>>, content |-> None]
    /\ state_file = AbsentFile
    /\ specialist_agents = SpecialistNames
    /\ specialist_reply = NoSpecialist
    /\ InitWeb
    /\ InitHarness
    /\ InitAdapter
    /\ InitAgent

SpecSessions == InitSessions /\ [][NextSessions]_vars

\* the whole document some save wrote
CompleteDocument(text) == Decodes(text) /\ \A i \in DOMAIN Loads(text) : RecordValid(Loads(text)[i])

\* the request is inside BaseAgent.run
InRun(request) == request.pc \in {"load", "model", "save", "write", "replace"}

\* C16: agents of different sessions never use the same state file, the
\* Controller included.
C16_SessionsShareNoStateFile ==
    \A s1, s2 \in Sessions :
        (s1 # s2 /\ active_sessions[s1] # None /\ active_sessions[s2] # None)
        => FilesOf(active_sessions[s1][1]) \cap FilesOf(active_sessions[s2][1]) = {}

\* C17: at every moment, also after a crash at any step of _save_state, a
\* state file that exists holds one complete serialized history.
C17_StateFileAlwaysComplete ==
    \A system \in { active_sessions[s][1] : s \in { x \in Sessions : active_sessions[x] # None } } :
        directory[system.state_file] # 0
        => CompleteDocument(inodes[directory[system.state_file]])

\* C20: no two executions of run on the same agent instance are under way at
\* the same time.
C20_OneRunPerInstance ==
    \A r1, r2 \in Requests :
        (r1 # r2 /\ InRun(requests[r1]) /\ InRun(requests[r2]))
        => requests[r1].session # requests[r2].session

\* ------------------------------------------------ the Anthropic adapter
MaxLoaded == 2
MaxVendorCalls == 2

\* a content block of an Anthropic message
ContentBlock(type, text, id) == [type |-> type, text |-> text, id |-> id]

\* part.strip() is empty
IsBlank(text) == \A i \in DOMAIN text : text[i] = " "

\* the string a tool_result block carries, anthropic.py:118-122
ResultContent(r) ==
    LET output == IF r.is_error THEN r.error ELSE r.result
    IN IF output = None THEN <<>> ELSE output[1]

\* the role a message gets, anthropic.py:84-92
AnthropicRole(role) ==
    CASE role = "model" -> "assistant"
      [] role = "tool" -> "user"
      [] OTHER -> role

\* the blocks of one part, anthropic.py:97-138
PartBlocks(msg, part) ==
    CASE part.type = "text" ->
           (IF IsBlank(part.text) THEN <<>> ELSE <<ContentBlock("text", part.text, "")>>)
      [] part.type = "tool_calls" /\ part.calls # <<>> ->
           (IF msg.role \in {"assistant", "model"}
            THEN [i \in DOMAIN part.calls |-> ContentBlock("tool_use", <<>>, part.calls[i].id)]
            ELSE <<>>)
      [] part.type = "tool_results" /\ part.results # <<>> ->
           (IF AnthropicRole(msg.role) = "user"
            THEN [i \in DOMAIN part.results |->
                    ContentBlock("tool_result", ResultContent(part.results[i]),
                                 part.results[i].id)]
            ELSE <<>>)
      [] part.type \in {"tool_calls", "tool_results", "empty_list"} -> <<>>
      [] OTHER -> <<ContentBlock("text", ToolResultRepr(part.results[1]), "")>>

RECURSIVE MessageBlocks(_, _)
\* the loop over msg.parts, anthropic.py:97
MessageBlocks(msg, parts) ==
    IF parts = <<>> THEN <<>>
    ELSE PartBlocks(msg, parts[1]) \o MessageBlocks(msg, Tail(parts))

AnthropicMessage(role, content) == [role |-> role, content |-> content]

\* a message joins the list: merged into the last one of the same role, or
\* appended, anthropic.py:147-159 and 255-265
AddTurn(session, role, blocks) ==
    IF session # <<>> /\ session[Len(session)].role = role
    THEN [session EXCEPT ![Len(session)].content = @ \o blocks]
    ELSE Append(session, AnthropicMessage(role, blocks))

RECURSIVE MergeTurns(_, _)
\* the loop of _convert_history_to_anthropic, anthropic.py:82-159
MergeTurns(messages, anthropic_history) ==
    IF messages = <<>> THEN anthropic_history
    ELSE LET msg == messages[1]
             blocks == MessageBlocks(msg, msg.parts)
         IN IF msg.role = "system" \/ blocks = <<>>
            THEN MergeTurns(Tail(messages), anthropic_history)
            ELSE MergeTurns(Tail(messages),
                            AddTurn(anthropic_history, AnthropicRole(msg.role), blocks))

\* two neighbours of the list have the same role
ConsecutiveRoles(messages) ==
    \E i \in 1 .. Len(messages) - 1 : messages[i].role = messages[i + 1].role

\* the final validation finds the converted list invalid, anthropic.py:161-173
ConversionInvalid(messages) ==
    LET anthropic_history == MergeTurns(messages, <<>>)
    IN \/ anthropic_history # <<>> /\ anthropic_history[1].role = "assistant"
       \/ ConsecutiveRoles(anthropic_history)

\* _convert_history_to_anthropic, anthropic.py:78-176
ConvertHistoryToAnthropic(messages) ==
    IF ConversionInvalid(messages) THEN <<>> ELSE MergeTurns(messages, <<>>)

\* the blocks of the new message, anthropic.py:226-252
NewMessageBlocks(prompt_parts) ==
    IF prompt_parts.texts # <<>>
    THEN (IF IsBlank(JoinLines(prompt_parts.texts)) THEN <<>>
          ELSE <<ContentBlock("text", JoinLines(prompt_parts.texts), "")>>)
    ELSE [i \in DOMAIN prompt_parts.results |->
            ContentBlock("tool_result", ResultContent(prompt_parts.results[i]),
                         prompt_parts.results[i].id)]

\* chat_session after the new message is appended or merged, anthropic.py:254-265
WithNewMessage(session, prompt_parts) ==
    IF NewMessageBlocks(prompt_parts) = <<>> THEN session
    ELSE AddTurn(session, "user", NewMessageBlocks(prompt_parts))

\* messages_to_send, anthropic.py:270
MessagesToSend(session) == SelectSeq(session, LAMBDA m : m.content # <<>>)

EmptyHistoryText == <<"[Error: Invalid conversation history state (empty).]">>
ConsecutiveRolesText(role) ==
    <<"[Error: Invalid history state (consecutive roles '", role, "'). Cannot send message.]">>
AnthropicRateLimitText ==
    <<"[Error: Anthropic API rate limit exceeded. Please wait and try again.]">>

\* what client.messages.create comes to: content blocks, or an SDK error
VendorOutcomes ==
    { [kind |-> "message", content |-> <<ContentBlock("text", <<"answer">>, "")>>],
      [kind |-> "message", content |-> <<ContentBlock("tool_use", <<>>, "call_1")>>],
      [kind |-> "message", content |-> <<>>],
      [kind |-> "RateLimitError", content |-> <<>>] }

\* the text blocks of the response joined, anthropic.py:311-321
ResponseText(content) ==
    LET texts == SelectSeq(content, LAMBDA b : b.type = "text")
    IN IF texts = <<>> THEN None ELSE Some(texts[1].text)

AsksForTools(outcome) ==
    outcome.kind = "message" /\ \E i \in DOMAIN outcome.content : outcome.content[i].type = "tool_use"

\* the messages a stored history is made of
StoredUser == ChatMessage("user", <<TextPart(<<"earlier question">>)>>)
StoredBlankUser == ChatMessage("user", <<TextPart(<<" ">>)>>)
StoredAssistant == ChatMessage("assistant", <<TextPart(<<"earlier answer">>)>>)
StoredToolUse == ChatMessage("assistant", <<ToolCallsPart(<<ToolCall("call_0", "read_file", "ok")>>)>>)
StoredToolMessage ==
    ChatMessage("tool", <<ToolResultPart(ToolResult("call_0", "read_file", Some(<<"data">>), None, FALSE))>>)
StoredSystem == ChatMessage("system", <<TextPart(<<"be brief">>)>>)

StoredMessages ==
    {StoredUser, StoredBlankUser, StoredAssistant, StoredToolUse, StoredToolMessage, StoredSystem}

\* self.history when run() calls start_chat: what was loaded, then the prompt
AdapterHistories ==
    { Append(loaded, ChatMessage("user", <<TextPart(prompt)>>)) :
        loaded \in UNION { [1 .. n -> StoredMessages] : n \in 0 .. MaxLoaded },
        prompt \in {UserPrompt, <<" ">>} }

\* run() hands the prompt to the first send_message, agent.py:296, 326
FirstPromptParts(messages) == PromptParts(<<messages[Len(messages)].parts[1].text>>, <<>>)

\* and the turn's ToolResults to the following ones, agent.py:374
NextPromptParts ==
    PromptParts(<<>>, <<ToolResult("call_1", "read_file", Some(<<"data">>), None, FALSE)>>)

\* AnthropicProvider.start_chat, anthropic.py:179-199
AdapterStartChat ==
    /\ adapter_pc = "idle"
    /\ chat_session' = IF adapter_history # <<>> THEN ConvertHistoryToAnthropic(adapter_history)
                       ELSE <<>>
    /\ conversion_rejected' = ConversionInvalid(adapter_history)
    /\ adapter_pc' = "prompt"
    /\ UNCHANGED <<adapter_history, vendor_calls, messages_sent, adapter_result>>

\* AnthropicProvider.send_message, anthropic.py:202-377
AdapterSendMessage ==
    /\ adapter_pc \in {"prompt", "tool_results"}
    /\ LET prompt_parts == IF adapter_pc = "prompt" THEN FirstPromptParts(adapter_history)
                           ELSE NextPromptParts
           session == WithNewMessage(chat_session, prompt_parts)
           messages_to_send == MessagesToSend(session)
       IN IF messages_to_send = <<>>
          THEN /\ adapter_result' = Some(EmptyHistoryText)
               /\ chat_session' = session
               /\ adapter_pc' = "done"
               /\ UNCHANGED <<vendor_calls, messages_sent>>
          ELSE IF ConsecutiveRoles(messages_to_send)
          THEN /\ adapter_result' =
                    Some(ConsecutiveRolesText(
                           messages_to_send[CHOOSE i \in 1 .. Len(messages_to_send) - 1 :
                               messages_to_send[i].role = messages_to_send[i + 1].role].role))
               /\ chat_session' = session
               /\ adapter_pc' = "done"
               /\ UNCHANGED <<vendor_calls, messages_sent>>
          ELSE \E outcome \in VendorOutcomes :
                 /\ vendor_calls' = vendor_calls + 1
                 /\ messages_sent' = messages_to_send
                 /\ IF outcome.kind = "message"
                    THEN /\ chat_session' =
                              Append(session, AnthropicMessage("assistant", outcome.content))
                         /\ adapter_result' = ResponseText(outcome.content)
                    ELSE /\ chat_session' = session
                         /\ adapter_result' = Some(AnthropicRateLimitText)
                 /\ adapter_pc' = IF AsksForTools(outcome) /\ vendor_calls' < MaxVendorCalls
                                  THEN "tool_results" ELSE "done"
    /\ UNCHANGED <<adapter_history, conversion_rejected>>

InitAnthropic ==
    /\ TOOL_REGISTRY = StartupRegistry
    /\ registry_schema = StartupSchemas
    /\ allowed_tools = DefaultAllowed
    /\ agent_tool_functions = PrepareAllowedTools(TOOL_REGISTRY, allowed_tools)
    /\ MAX_GLOBAL_TOKENS = 0
    /\ script = [batch |-> <<>>, content |-> None]
    /\ state_file = AbsentFile
    /\ specialist_agents = {}
    /\ specialist_reply = NoSpecialist
    /\ InitWeb
    /\ InitHarness
    /\ InitAgent
    /\ adapter_pc = "idle"
    /\ adapter_history \in AdapterHistories
    /\ chat_session = <<>>
    /\ conversion_rejected = FALSE
    /\ vendor_calls = 0
    /\ messages_sent = <<>>
    /\ adapter_result = None

nonAdapterVars == <<registryVars, tokenVars, runVars, tool_tasks, MAX_GLOBAL_TOKENS, script,
                    stdin_read, stdin_closed, specialist_agents, specialist_reply, webVars, harnessVars>>

NextAnthropic ==
    \/ AdapterStartChat /\ UNCHANGED nonAdapterVars
    \/ AdapterSendMessage /\ UNCHANGED nonAdapterVars

SpecAnthropic == InitAnthropic /\ [][NextAnthropic]_vars

\* an explicit error result of the adapter
AdapterErrorTexts ==
    {EmptyHistoryText, AnthropicRateLimitText}
    \cup { ConsecutiveRolesText(role) : role \in {"user", "assistant"} }

\* user and assistant turns only, no two neighbours of one role
StrictlyAlternates(messages) ==
    /\ \A i \in DOMAIN messages : messages[i].role \in {"user", "assistant"}
    /\ ~ConsecutiveRoles(messages)

\* C19: every list handed to the vendor strictly alternates user and
\* assistant turns; whenever the adapter cannot produce a valid alternating
\* sequence it returns an explicit error result and calls the vendor not.
C19_AlternatingOrExplicitError ==
    /\ StrictlyAlternates(messages_sent)
    /\ conversion_rejected => vendor_calls = 0
    /\ (adapter_pc = "done" /\ (conversion_rejected \/ vendor_calls = 0))
       => (adapter_result # None /\ adapter_result[1] \in AdapterErrorTexts)

\* ------------------------------------- tool call ids of Gemini and Ollama
MaxParts == 3
MaxMillis == 1
HashMod == 2

\* what a model response asks for: a function name and its arguments
CallArgs == {"path=a.txt", "path=b.txt"}
FunctionCalls == [name : {"read_file", "list_files"}, args : CallArgs]

\* f"{fc.name}_{int(time.time()*1000)}_{hash(str(fc.args)) % 10000}",
\* gemini.py:314 and ollama.py:351
CallId(name, now, hashed) == [name |-> name, ms |-> now, hash |-> hashed]

\* the loop body over candidate.content.parts, gemini.py:307-315, and over
\* calls_data, ollama.py:345-352
ExtractToolCall ==
    /\ Len(all_tool_calls) < Len(response_parts)
    /\ LET fc == response_parts[Len(all_tool_calls) + 1]
           call_id == CallId(fc.name, clock_ms, arg_hash[fc.args])
       IN all_tool_calls' = Append(all_tool_calls, ToolCall(call_id, fc.name, fc.args))
    /\ UNCHANGED <<response_parts, clock_ms, arg_hash>>

\* a millisecond passes between two iterations
MillisecondPasses ==
    /\ clock_ms < MaxMillis
    /\ clock_ms' = clock_ms + 1
    /\ UNCHANGED <<response_parts, all_tool_calls, arg_hash>>

InitCore ==
    /\ TOOL_REGISTRY = StartupRegistry
    /\ registry_schema = StartupSchemas
    /\ allowed_tools = DefaultAllowed
    /\ agent_tool_functions = PrepareAllowedTools(TOOL_REGISTRY, allowed_tools)
    /\ MAX_GLOBAL_TOKENS = 0
    /\ script = [batch |-> <<>>, content |-> None]
    /\ state_file = AbsentFile
    /\ specialist_agents = {}
    /\ specialist_reply = NoSpecialist
    /\ InitAgent
    /\ InitAdapter

InitExtraction ==
    /\ InitCore
    /\ InitWeb
    /\ InitOtherThanExtract
    /\ response_parts \in UNION { [1 .. n -> FunctionCalls] : n \in 1 .. MaxParts }
    /\ all_tool_calls = <<>>
    /\ clock_ms = 0
    /\ arg_hash \in [CallArgs -> 0 .. HashMod - 1]

NextExtraction ==
    \/ ExtractToolCall /\ UNCHANGED extractRest
    \/ MillisecondPasses /\ UNCHANGED extractRest

SpecExtraction == InitExtraction /\ [][NextExtraction]_vars

\* C21: the ToolCalls extracted from one model response carry pairwise
\* distinct ids, also when the response asks for the same tool with the same
\* arguments more than once.
C21_IdsDistinctWithinTurn ==
    \A i, j \in DOMAIN all_tool_calls :
        i # j => all_tool_calls[i].id # all_tool_calls[j].id

\* ------------------------------------------ both kinds of agent together
\* the agent is a ControllerAgent: its only tool is the delegation tool
IsController == allowed_tools = {SPECIALIST_TOOL_NAME}

NextAgents ==
    \/ ~IsController /\ Next
    \/ IsController /\ NextController

SpecAgents == (Init \/ InitController) /\ [][NextAgents]_vars

\* every ToolResult the run holds: of the turn's tasks, fed to the model,
\* or kept in history
HeldResults ==
    { t.result[1] : t \in { x \in Tasks : x.result # None } }
    \cup { current_prompt_parts.results[i] : i \in DOMAIN current_prompt_parts.results }
    \cup UNION { UNION { { history[i].parts[j].results[k] :
                             k \in DOMAIN history[i].parts[j].results } :
                         j \in DOMAIN history[i].parts } :
                 i \in DOMAIN history }

\* C22: in every ToolResult a set error implies is_error, and a ToolResult
\* of BaseAgent._execute_tool or ControllerAgent._execute_tool has exactly
\* one of result and error set: result when it is no error, error when it is.
C22_ResultXorError ==
    \A r \in HeldResults :
        /\ r.error # None => r.is_error
        /\ (r.result # None) # (r.error # None)
        /\ r.is_error <=> r.error # None

\* a BaseAgent turn whose batch gave one failure and one output, and a
\* ControllerAgent turn whose delegation failed
C22_Witness ==
    \/ /\ ~IsController
       /\ \E r1, r2 \in HeldResults : r1.is_error /\ r1.result = None /\ r2.result # None
    \/ /\ IsController
       /\ \E r1 \in HeldResults : r1.is_error /\ r1.result = None /\ r1.name = SPECIALIST_TOOL_NAME

\* the task ran read_file on a path that is no file
ReadMissingFile(t) ==
    /\ t.call.name = "read_file" /\ t.call.arguments = "missing_file"
    /\ t.invoked /\ t.pc = "done"

\* the text a ToolResult carries
OutputOf(r) == IF r.is_error THEN r.error ELSE r.result

\* C23: read_file on a non-existent file gives a ToolResult whose text begins
\* with "Error:" and whose is_error is True; the loop appends it as a tool
\* message and goes on to the next model turn.
C23_MissingFileIsErrorResult ==
    \A i \in DOMAIN tool_tasks :
        ReadMissingFile(tool_tasks[i])
        => /\ OutputOf(tool_tasks[i].result[1]) # None
           /\ OutputOf(tool_tasks[i].result[1])[1][1] = "Error: File not found: "
           /\ tool_tasks[i].result[1].is_error
           /\ BatchFed => /\ history[Len(history)].role = "tool"
                          /\ ResultsOf(history[Len(history)])[i] = tool_tasks[i].result[1]

\* ------------------------------------------------- register_tool, alone
MaxRegistrations == 3

\* what a decorator can pass to register_tool: a name discover_tools() has
\* registered or one it has not
RegistrationCalls ==
    [tool_name : {"read_file", "edit_file"}, func : 1 .. MaxVersion, description : Descriptions,
     parameters : ParameterKinds]

\* register_tool(func, name, description, parameters) runs to its end
RegisterCall(c) ==
    /\ c \in RegistrationCalls
    /\ registrations < MaxRegistrations
    /\ TOOL_REGISTRY' = register_tool(TOOL_REGISTRY, c.tool_name, c.func)
    /\ registry_schema' = register_schema(registry_schema, c.tool_name,
                              ToolSchema(c.tool_name, c.func, c.description, c.parameters))
    /\ last_registration' = [last_registration EXCEPT ![c.tool_name] = Some(c)]
    /\ registrations' = registrations + 1
    /\ UNCHANGED <<allowed_tools, agent_tool_functions, tokenVars, runVars, tool_tasks,
                   MAX_GLOBAL_TOKENS, script, stdin_read, stdin_closed, specialist_agents,
                   specialist_reply, webVars, adapterVars, registrationRest>>

InitRegistry ==
    /\ InitCore
    /\ InitWeb
    /\ InitHarness

NextRegistry == \E c \in RegistrationCalls : RegisterCall(c)

SpecRegistry == InitRegistry /\ [][NextRegistry]_vars

\* the names TOOL_REGISTRY has an entry for
RegisteredNames == {n \in ToolNames : TOOL_REGISTRY[n] # NoFunction}

\* the registry after register_tool ran for call c on the registry given
Registered(registry, schemas, c) ==
    [function |-> register_tool(registry, c.tool_name, c.func),
     schema |-> register_schema(schemas, c.tool_name,
                    ToolSchema(c.tool_name, c.func, c.description, c.parameters))]

\* C24: after any sequence of register_tool calls TOOL_REGISTRY holds exactly
\* one entry per distinct tool name registered, a lookup gives the function and
\* the schema of the latest registration of the name, and registering a name
\* twice with the same function and metadata gives the registry that
\* registering it once gives.
C24_RegistryHoldsLatest ==
    /\ RegisteredNames = {n \in ToolNames : last_registration[n] # None}
    /\ \A n \in ToolNames :
           /\ (registry_schema[n] # None) <=> (n \in RegisteredNames)
           /\ n \in RegisteredNames =>
                  LET latest == last_registration[n][1]
                  IN /\ TOOL_REGISTRY[n] = latest.func
                     /\ registry_schema[n] =
                            Some(ToolSchema(n, latest.func, latest.description,
                                            latest.parameters))
    /\ \A c \in RegistrationCalls :
           LET once == Registered(TOOL_REGISTRY, registry_schema, c)
           IN Registered(once.function, once.schema, c) = once

\* a name registered at startup was registered again, with another function
\* and explicit metadata, and the registry holds the later definition
C24_Witness ==
    /\ registrations >= 2
    /\ TOOL_REGISTRY["read_file"] = 2
    /\ registry_schema["read_file"] =
           Some([description |-> <<"Explicit description.">>,
                 parameters |-> Some(ExplicitParameters)])
    /\ RegisteredNames = {n \in ToolNames : StartupRegistry[n] # NoFunction}

\* ------------------------------------------------- _run_command_async
MaxTimeout == 2
MaxCommands == 2

\* the programs the tools run: one the agent's user may signal, sudo (which
\* runs as root, so that the agent's user may not signal it), and one that is
\* not installed
Programs == {"ls", "sudo", "not_installed"}

Commands ==
    [program : Programs, is_list : BOOLEAN, use_shell : BOOLEAN, cwd_is_dir : BOOLEAN,
     timeout : 1 .. MaxTimeout, exit_code : {0, 1}]

\* the (success, stdout, stderr, rc) the helper returns
CommandResult(success, stdout, stderr, rc) ==
    [success |-> success, stdout |-> stdout, stderr |-> stderr, rc |-> rc]

CwdNotFoundText == <<"Working directory '", "cwd", "' not found or not a directory.">>
MustBeStringText == <<"Internal Error: Command must be a string when use_shell=True.">>
MustBeListText ==
    <<"Internal Error: Command must be a non-empty list of strings when use_shell=False. Received: ",
      "<class 'str'>">>
CommandNotFoundText(program) == <<"Error: Command not found: ", program>>
TimedOutText(timeout) == <<"Error: Command timed out after ", ToString(timeout), " seconds.">>

\* the checks made before a process is created; None when they pass
ArgumentError(c) ==
    IF ~c.cwd_is_dir THEN Some(CwdNotFoundText)
    ELSE IF c.use_shell /\ c.is_list THEN Some(MustBeStringText)
    ELSE IF ~c.use_shell /\ ~c.is_list THEN Some(MustBeListText)
    ELSE None

\* os.kill(pid, SIGKILL) by the agent's user: refused for a process of root
KillPermitted(c) == c.program # "sudo"

\* the helper is called: the arguments are checked and the process is created
RunCommandAsync(c) ==
    /\ c \in Commands
    /\ command_pc \in {"idle", "returned"}
    /\ process # "running"
    /\ commands_run < MaxCommands
    /\ commands_run' = commands_run + 1
    /\ command' = c
    /\ elapsed' = 0
    /\ returncode' = None
    /\ IF ArgumentError(c) # None
       THEN /\ command_pc' = "returned"
            /\ process' = "none"
            /\ command_result' = Some(CommandResult(FALSE, <<>>, ArgumentError(c)[1], -1))
       ELSE IF c.program = "not_installed" /\ ~c.use_shell
       THEN /\ command_pc' = "returned"
            /\ process' = "none"
            /\ command_result' =
                   Some(CommandResult(FALSE, <<>>, CommandNotFoundText(c.program), -1))
       ELSE /\ command_pc' = "communicate"
            /\ process' = "running"
            /\ command_result' = None
    /\ UNCHANGED commandRest

\* the subprocess ends by itself; a shell given a program that is not
\* installed ends with 127
ProcessExits ==
    /\ process = "running"
    /\ process' = "exited"
    /\ returncode' = Some(IF command.program = "not_installed" THEN 127 ELSE command.exit_code)
    /\ UNCHANGED <<command, command_pc, elapsed, command_result, commands_run, commandRest>>

\* a second passes while wait_for awaits communicate()
SecondPasses ==
    /\ command_pc = "communicate"
    /\ elapsed < command.timeout
    /\ elapsed' = elapsed + 1
    /\ UNCHANGED <<command, command_pc, process, returncode, command_result, commands_run,
                   commandRest>>

\* communicate() returns within the timeout
CommunicateReturns ==
    /\ command_pc = "communicate"
    /\ process = "exited"
    /\ command_pc' = "returned"
    /\ command_result' =
           Some(CommandResult(returncode[1] = 0, <<"stdout">>, <<>>, returncode[1]))
    /\ UNCHANGED <<command, process, returncode, elapsed, commands_run, commandRest>>

\* wait_for gives up: asyncio.TimeoutError reaches the handler
TimeoutExpires ==
    /\ command_pc = "communicate"
    /\ elapsed = command.timeout
    /\ command_pc' = "timed_out"
    /\ UNCHANGED <<command, process, returncode, elapsed, command_result, commands_run,
                   commandRest>>

\* the handler of asyncio.TimeoutError: kill and wait when no return code is
\* known, with every error of the kill logged and dropped, then the failure
KillTimedOut ==
    /\ command_pc = "timed_out"
    /\ command_pc' = "returned"
    /\ IF process = "running" /\ KillPermitted(command)
       THEN /\ process' = "exited"
            /\ returncode' = Some(-9)
       ELSE UNCHANGED <<process, returncode>>
    /\ command_result' =
           Some(CommandResult(FALSE, <<>>, TimedOutText(command.timeout), -1))
    /\ UNCHANGED <<command, elapsed, commands_run, commandRest>>

InitCommands ==
    /\ InitCore
    /\ InitWeb
    /\ InitHarness

NextCommands ==
    \/ \E c \in Commands : RunCommandAsync(c)
    \/ ProcessExits
    \/ SecondPasses
    \/ CommunicateReturns
    \/ TimeoutExpires
    \/ KillTimedOut

SpecCommands == InitCommands /\ [][NextCommands]_vars

\* the helper returned because its timeout expired
ReturnedTimedOut ==
    /\ command_pc = "returned"
    /\ command_result # None
    /\ command_result[1].stderr = TimedOutText(command.timeout)

\* C25: every command run through _run_command_async carries a timeout, and
\* whenever the timeout expires the subprocess is no longer running when the
\* helper returns, and the helper returns a failure saying the command timed
\* out.
C25_TimedOutProcessIsDead ==
    /\ command_pc = "communicate" => elapsed <= command.timeout
    /\ ReturnedTimedOut => /\ process # "running"
                           /\ ~command_result[1].success
                           /\ command_result[1].stderr[1] = "Error: Command timed out after "

\* ------------------------------------------------- handle_prompt
MaxPosts == 2

\* the POSTs: with or without the session cookie that GET / sets, with a JSON
\* body or not, the body's "prompt" a text, blank, missing or no string; and
\* what the awaited calls will do
Posts ==
    [has_session : BOOLEAN, is_json : BOOLEAN,
     prompt : {"text", "blank", "missing", "not_string"},
     controller : {"ok", "ValueError"}, run : {"returns", "PermissionError"}]

HttpResponse(status, key, text) == [status |-> status, key |-> key, text |-> text]

SessionNotInitializedText == <<"Session not initialized. Please refresh the page.">>
MustBeJsonText == <<"Request must be JSON">>
BadPromptText == <<"Missing, invalid, or empty 'prompt' in request body">>
InternalErrorText(e) == <<"An internal server error occurred: ", e>>
RunText == <<"response of the Controller">>

\* the checks of handle_prompt before the try; None when they pass
EarlyAnswer(p) ==
    IF ~p.has_session THEN Some(HttpResponse(400, "error", SessionNotInitializedText))
    ELSE IF ~p.is_json THEN Some(HttpResponse(400, "error", MustBeJsonText))
    ELSE IF p.prompt # "text" THEN Some(HttpResponse(400, "error", BadPromptText))
    ELSE None

\* a POST arrives and handle_prompt runs up to its first await
HandlePrompt(p) ==
    /\ p \in Posts
    /\ http_pc \in {"idle", "answered"}
    /\ posts < MaxPosts
    /\ posts' = posts + 1
    /\ http_request' = p
    /\ run_awaits' = 0
    /\ IF EarlyAnswer(p) # None
       THEN /\ http_pc' = "answered"
            /\ http_response' = EarlyAnswer(p)
            /\ controller_gets' = 0
       ELSE /\ http_pc' = "get_controller"
            /\ http_response' = None
            /\ controller_gets' = 1
    /\ UNCHANGED httpRest

\* get_session_controller returns or raises
ControllerObtained ==
    /\ http_pc = "get_controller"
    /\ IF http_request.controller = "ok"
       THEN /\ http_pc' = "run"
            /\ run_awaits' = 1
            /\ UNCHANGED http_response
       ELSE /\ http_pc' = "answered"
            /\ http_response' =
                   Some(HttpResponse(500, "error", InternalErrorText(http_request.controller)))
            /\ UNCHANGED run_awaits
    /\ UNCHANGED <<http_request, controller_gets, posts, httpRest>>

\* controller.run(prompt, load_state=True, save_state=True) returns or raises
RunAnswered ==
    /\ http_pc = "run"
    /\ http_pc' = "answered"
    /\ http_response' =
           IF http_request.run = "returns" THEN Some(HttpResponse(200, "response", RunText))
           ELSE Some(HttpResponse(500, "error", InternalErrorText(http_request.run)))
    /\ UNCHANGED <<http_request, controller_gets, run_awaits, posts, httpRest>>

InitHttp ==
    /\ InitCore
    /\ InitWeb
    /\ InitHarness

NextHttp ==
    \/ \E p \in Posts : HandlePrompt(p)
    \/ ControllerObtained
    \/ RunAnswered

SpecHttp == InitHttp /\ [][NextHttp]_vars

\* C26: for every POST to /api/prompt whose JSON body carries a non-blank
\* prompt string, the handler obtains the session's controller exactly once,
\* awaits controller.run exactly once and answers with status 200 and the
\* returned text under the key "response".
C26_PromptAnsweredOnce ==
    (http_pc = "answered" /\ http_request.is_json /\ http_request.prompt = "text")
    => /\ controller_gets = 1
       /\ run_awaits = 1
       /\ http_response = Some(HttpResponse(200, "response", RunText))

\* ------------------------------------------------- create_directory
\* the parent of a path; the working directory is <<>>
Parent(p) == SubSeq(p, 1, Len(p) - 1)

\* what lies at a path; the working directory is a directory
KindAt(t, p) == IF p = <<>> THEN "dir" ELSE t[p]

\* the proper ancestors of a path below the working directory
Ancestors(p) == {SubSeq(p, 1, n) : n \in 1 .. Len(p) - 1}

\* the outcome of a mkdir: the tree it leaves and the error it raised, if any
MkdirOutcome(t, error) == [tree |-> t, error |-> error]

\* the mutant replaces a file that stands at the path
OsMkdirOverFile(t, writable, p) ==
    IF \E a \in Ancestors(p) : t[a] = "file" THEN MkdirOutcome(t, Some("NotADirectoryError"))
    ELSE IF KindAt(t, Parent(p)) = "absent" THEN MkdirOutcome(t, Some("FileNotFoundError"))
    ELSE IF t[p] = "dir" THEN MkdirOutcome(t, Some("FileExistsError"))
    ELSE IF Parent(p) = <<>> /\ ~writable THEN MkdirOutcome(t, Some("PermissionError"))
    ELSE MkdirOutcome([t EXCEPT ![p] = "dir"], None)

\* os.mkdir(p): ENOTDIR and ENOENT come from the lookup of the parent, EEXIST
\* from the entry itself, EACCES from the permission to write in the parent
OsMkdir(t, writable, p) ==
    IF \E a \in Ancestors(p) : t[a] = "file" THEN MkdirOutcome(t, Some("NotADirectoryError"))
    ELSE IF KindAt(t, Parent(p)) = "absent" THEN MkdirOutcome(t, Some("FileNotFoundError"))
    ELSE IF t[p] # "absent" THEN MkdirOutcome(t, Some("FileExistsError"))
    ELSE IF Parent(p) = <<>> /\ ~writable THEN MkdirOutcome(t, Some("PermissionError"))
    ELSE MkdirOutcome([t EXCEPT ![p] = "dir"], None)

RECURSIVE Mkdir(_, _, _)
\* Path.mkdir(parents=True, exist_ok=True): a missing parent is made first,
\* any other OSError is dropped when the path is a directory
Mkdir(t, writable, p) ==
    LET first == OsMkdir(t, writable, p)
    IN IF first.error = None THEN first
       ELSE IF first.error[1] = "FileNotFoundError"
       THEN LET above == Mkdir(t, writable, Parent(p))
            IN IF above.error # None THEN above
               ELSE OsMkdir(above.tree, writable, p)
       ELSE IF t[p] = "dir" THEN MkdirOutcome(t, None)
       ELSE first

\* Path(directory_path).resolve(): the absolute path, below the working directory
Resolve(p) == <<"/", "cwd">> \o p

CreatedText(p) ==
    <<"Successfully created directory (or it already existed): ", p, " (Resolved: ",
      Resolve(p), ")">>
CreateDeniedText(p) == <<"Error: Permission denied creating directory '", p, "'.">>
CreateErrorText(p, e) == <<"Error creating directory '", p, "': ", e>>

\* create_directory(directory_path) runs to its end
CreateDirectory(p) ==
    /\ p \in DirPaths
    /\ LET made == Mkdir(tree, cwd_writable, p)
       IN /\ tree' = made.tree
          /\ created' = {q \in DirPaths : tree[q] # made.tree[q]}
          /\ create_result' =
                 IF made.error = None THEN Some(CreatedText(p))
                 ELSE IF made.error[1] = "PermissionError" THEN Some(CreateDeniedText(p))
                 ELSE Some(CreateErrorText(p, made.error[1]))
    /\ directory_path' = p
    /\ UNCHANGED <<cwd_writable, treeRest>>

\* another program writes a file into an existing directory
FileAppears(p) ==
    /\ p \in DirPaths
    /\ tree[p] = "absent"
    /\ KindAt(tree, Parent(p)) = "dir"
    /\ Parent(p) = <<>> => cwd_writable
    /\ tree' = [tree EXCEPT ![p] = "file"]
    /\ UNCHANGED <<cwd_writable, directory_path, created, create_result, treeRest>>

\* the owner changes the permissions of the working directory
Chmod ==
    /\ cwd_writable' = ~cwd_writable
    /\ UNCHANGED <<tree, directory_path, created, create_result, treeRest>>

InitTree ==
    /\ InitCore
    /\ InitWeb
    /\ InitHarness

NextTree ==
    \/ \E p \in DirPaths : CreateDirectory(p)
    \/ \E p \in DirPaths : FileAppears(p)
    \/ Chmod

SpecTree == InitTree /\ [][NextTree]_vars

\* a directory can come to exist at the path: no file stands at it or above
\* it, and the first missing component may be created
CanBeDirectory(t, writable, p) ==
    /\ \A n \in 1 .. Len(p) : t[SubSeq(p, 1, n)] # "file"
    /\ t[<<p[1]>>] = "absent" => writable

\* C27 as the claim states it: after create_directory returns for a path, the
\* directory exists
C27_DirectoryExistsAfterReturn ==
    create_result # None => tree[directory_path] = "dir"

\* C27, amended: whenever a directory can come to exist at the path,
\* create_directory returns the success message, the same for a first creation
\* and for an existing directory, and afterwards the directory and all its
\* parents exist; an existing directory and everything else in the tree stay
\* as they were; otherwise it returns an error text and changes nothing.
C27_IdempotentAndCreatesParents ==
    [][\A p \in DirPaths :
         CreateDirectory(p) =>
           IF CanBeDirectory(tree, cwd_writable, p)
           THEN /\ create_result' = Some(CreatedText(p))
                /\ \A n \in 1 .. Len(p) : tree'[SubSeq(p, 1, n)] = "dir"
                /\ \A q \in DirPaths : tree[q] # "absent" => tree'[q] = tree[q]
                /\ created' \subseteq (Ancestors(p) \cup {p})
                /\ tree[p] = "dir" => tree' = tree
           ELSE /\ create_result' # Some(CreatedText(p))
                /\ tree' = tree]_vars

\* a call made the directory together with its missing parent
C27_Witness ==
    /\ create_result = Some(CreatedText(directory_path))
    /\ Len(directory_path) = 2
    /\ created = {Parent(directory_path), directory_path}

\* ------------------------------------- agents sharing a cached provider
MaxRunTurns == 2

\* BaseAgent.system_prompt and BaseAgent.provider_tool_schemas of each agent
SystemPromptOf(a) == <<"system prompt of ", a>>
ToolSchemasOf(a) ==
    IF a = "ControllerAgent" THEN {SPECIALIST_TOOL_NAME}
    ELSE IF a = "CodingAgent" THEN {"read_file", "edit_file"}
    ELSE {"run_shell_command", "kill_process"}

\* the vendors: GeminiProvider builds a GenerativeModel per session, the
\* AnthropicProvider keeps prompt and tools on the provider instance
ProviderKinds == {"gemini", "anthropic"}

\* get_or_create_cached_provider for every agent: agents whose configuration
\* gives the same (provider, base_url or api_key) key get the same instance
CacheAssignments == [SharingAgents -> ProviderInstances]

\* provider.start_chat(system_prompt, tool_schemas, history) for agent a
provider_start_chat(a) ==
    IF provider_kind = "anthropic"
    THEN /\ provider_state' =
                [provider_state EXCEPT ![agent_provider[a]] =
                     [system |-> Some(SystemPromptOf(a)), tools |-> Some(ToolSchemasOf(a))]]
         /\ agent_session' = [agent_session EXCEPT ![a] = FreshProvider]
    ELSE /\ agent_session' =
                [agent_session EXCEPT ![a] =
                     [system |-> Some(SystemPromptOf(a)), tools |-> Some(ToolSchemasOf(a))]]
         /\ UNCHANGED provider_state

\* the request provider.send_message(chat_session, ...) sends for agent a
request_sent(a) ==
    LET source == IF provider_kind = "anthropic" THEN provider_state[agent_provider[a]]
                  ELSE agent_session[a]
    IN [agent |-> a, system |-> source.system, tools |-> source.tools]

\* ControllerAgent.run starts its chat session
ControllerStartsChat ==
    /\ delegation_pc = "idle"
    /\ provider_start_chat("ControllerAgent")
    /\ run_turns' = [run_turns EXCEPT !["ControllerAgent"] = 0]
    /\ delegation_pc' = "controller_turn"
    /\ UNCHANGED <<agent_provider, provider_kind, delegate, model_call, delegation_result, providerRest>>

\* a Controller turn: the model answers with text or delegates to a specialist
ControllerTurn ==
    /\ delegation_pc = "controller_turn"
    /\ run_turns["ControllerAgent"] < MaxRunTurns
    /\ model_call' = Some(request_sent("ControllerAgent"))
    /\ run_turns' = [run_turns EXCEPT !["ControllerAgent"] = @ + 1]
    /\ \/ /\ delegation_pc' = "idle"
          /\ UNCHANGED delegate
       \/ \E s \in SharingAgents \ {"ControllerAgent"} :
            /\ delegate' = s
            /\ delegation_pc' = "delegated"
    /\ UNCHANGED <<agent_provider, provider_kind, provider_state, agent_session,
                   delegation_result, providerRest>>

\* the turn cap ends the Controller run
ControllerStops ==
    /\ delegation_pc = "controller_turn"
    /\ run_turns["ControllerAgent"] = MaxRunTurns
    /\ delegation_pc' = "idle"
    /\ UNCHANGED <<agent_provider, provider_kind, provider_state, agent_session, delegate,
                   run_turns, model_call, delegation_result, providerRest>>

\* _run_delegation: specialist.run starts its chat session
SpecialistStartsChat ==
    /\ delegation_pc = "delegated"
    /\ provider_start_chat(delegate)
    /\ run_turns' = [run_turns EXCEPT ![delegate] = 0]
    /\ delegation_pc' = "specialist_turn"
    /\ UNCHANGED <<agent_provider, provider_kind, delegate, model_call, delegation_result, providerRest>>

\* a specialist turn: with a text answer the run returns and the Controller
\* goes on with its next turn
SpecialistTurn ==
    /\ delegation_pc = "specialist_turn"
    /\ run_turns[delegate] < MaxRunTurns
    /\ model_call' = Some(request_sent(delegate))
    /\ run_turns' = [run_turns EXCEPT ![delegate] = @ + 1]
    /\ \/ /\ delegation_pc' = "specialist_turn"
          /\ UNCHANGED delegation_result
       \/ /\ delegation_pc' = "controller_turn"
          /\ delegation_result' = "text"
    /\ UNCHANGED <<agent_provider, provider_kind, provider_state, agent_session, delegate,
                   providerRest>>

\* the turn cap ends the specialist run
SpecialistStops ==
    /\ delegation_pc = "specialist_turn"
    /\ run_turns[delegate] = MaxRunTurns
    /\ delegation_pc' = "controller_turn"
    /\ delegation_result' = "max_rounds"
    /\ UNCHANGED <<agent_provider, provider_kind, provider_state, agent_session, delegate,
                   run_turns, model_call, providerRest>>

InitSharing ==
    /\ InitCore
    /\ InitWeb
    /\ InitOtherThanProvider
    /\ agent_provider \in CacheAssignments
    /\ provider_kind \in ProviderKinds
    /\ provider_state = [p \in ProviderInstances |-> FreshProvider]
    /\ agent_session = [a \in SharingAgents |-> FreshProvider]
    /\ delegation_pc = "idle"
    /\ delegate = "CodingAgent"
    /\ run_turns = [a \in SharingAgents |-> 0]
    /\ model_call = None
    /\ delegation_result = "none"

NextSharing ==
    \/ ControllerStartsChat
    \/ ControllerTurn
    \/ ControllerStops
    \/ SpecialistStartsChat
    \/ SpecialistTurn
    \/ SpecialistStops

SpecSharing == InitSharing /\ [][NextSharing]_vars

\* C28: every model call made for an agent's run uses that agent's own
\* system prompt and tool declarations, also when the provider instance is
\* shared through the cache with an agent whose run starts in between.
C28_OwnPromptAndTools ==
    model_call # None =>
        /\ model_call[1].system = Some(SystemPromptOf(model_call[1].agent))
        /\ model_call[1].tools = Some(ToolSchemasOf(model_call[1].agent))

\* ------------------------------------------------- the turn cap
\* the assistant messages of a history that hold a text part
WithAssistantText(h) ==
    {i \in DOMAIN h : h[i].role = "assistant" /\ TextsOf(h[i].parts) # <<>>}

\* the text of the last of them
LastAssistantText(h) ==
    get_text_content(h[CHOOSE i \in WithAssistantText(h) : \A j \in WithAssistantText(h) : j <= i])

\* run leaves its loop at the turn cap with no final answer set
CapReachedWithoutAnswer ==
    /\ pc = "end_loop"
    /\ tool_round >= max_tool_rounds
    /\ final_response = DefaultFinal

\* C29: when the turn cap is reached without a final text answer, run returns
\* the last assistant text seen in history annotated with the max-turns
\* warning if history holds any assistant text, and the generic incomplete-run
\* message otherwise.
C29_LastAssistantTextOrGeneric ==
    [][(CapReachedWithoutAnswer /\ returned' # None)
       => returned' = Some(IF WithAssistantText(history) # {}
                           THEN LastAssistantText(history) \o MaxRoundsWarning
                           ELSE DefaultFinal)]_vars

\* ------------------------------------------------- the prompt of the first turn
\* the prompt run() appended to self.history before start_chat, agent.py:292
RunPrompt == adapter_history[Len(adapter_history)].parts[1].text

\* the text parts of a history that hold the text
TextPartsWith(messages, text) ==
    UNION { { <<i, j>> : j \in {k \in DOMAIN messages[i].parts :
                                  /\ messages[i].parts[k].type = "text"
                                  /\ messages[i].parts[k].text = text} } :
            i \in DOMAIN messages }

\* the text blocks of a vendor message list that hold the text
TextBlocksWith(messages, text) ==
    UNION { { <<i, j>> : j \in {k \in DOMAIN messages[i].content :
                                  /\ messages[i].content[k].type = "text"
                                  /\ messages[i].content[k].text = text} } :
            i \in DOMAIN messages }

\* the first turn of the run was sent to the vendor
FirstTurnSent == vendor_calls = 1 /\ RunPrompt = UserPrompt

\* C30: on the first turn of a run the vendor message list holds the run's
\* user prompt exactly once: as often as self.history holds it, the prompt
\* appended to the history that seeds the session not being sent a second time
\* as the new turn.
C30_PromptSentOnce ==
    FirstTurnSent =>
        Cardinality(TextBlocksWith(messages_sent, RunPrompt))
            = Cardinality(TextPartsWith(adapter_history, RunPrompt))

\* ------------------------------------------------ the shape of the history
\* run() got past _load_state and that gave no stored message
StartedFromEmptyHistory ==
    /\ pc # "idle"
    /\ ~(pc = "done" /\ history = <<>>)
    /\ \/ ~load_state
       \/ (pc # "done" \/ ~save_state) /\ LoadedHistory(state_file) = <<>>

\* the types of the parts that carry ToolCalls, and ToolResults
CallPartTypes == {"tool_calls"}
ResultPartTypes == {"tool_result", "tool_results"}

HasCallBatch(msg) == \E k \in DOMAIN msg.parts : msg.parts[k].type \in CallPartTypes

\* the ids of a sequence of ToolCalls or ToolResults, in order
IdsOf(items) == [i \in DOMAIN items |-> items[i].id]

\* C31: in every state of a run that started from an empty history, the
\* history begins with the user message holding the prompt, parts carrying
\* tool calls occur only in assistant messages and parts carrying tool
\* results only in tool messages, and every tool message comes directly after
\* an assistant message whose tool-call batch has the ids of the tool
\* message's results, in the same order.
C31_HistoryWellFormed ==
    StartedFromEmptyHistory =>
        /\ history # <<>>
        /\ history[1] = ChatMessage("user", <<TextPart(UserPrompt)>>)
        /\ \A i \in DOMAIN history :
             \A k \in DOMAIN history[i].parts :
                /\ history[i].parts[k].type \in CallPartTypes => history[i].role = "assistant"
                /\ history[i].parts[k].type \in ResultPartTypes => history[i].role = "tool"
        /\ \A i \in DOMAIN history :
             history[i].role = "tool" =>
                /\ i > 1
                /\ history[i - 1].role = "assistant"
                /\ HasCallBatch(history[i - 1])
                /\ IdsOf(CallsOf(history[i - 1])) = IdsOf(ResultsOf(history[i]))

C31_Witness ==
    /\ StartedFromEmptyHistory
    /\ Len(history) = 3
    /\ history[3].role = "tool"
    /\ Len(history[3].parts) = 3
    /\ IdsOf(ResultsOf(history[3])) = <<"call_1", "call_2", "call_3">>

\* ------------------------------------------- the OpenAI message list
\* send_message calls of one run
MaxOpenAISends == 3

\* a message of the OpenAI list; tool_calls holds the vendor's tool calls
OpenAIMessage(role, content, tool_call_id, tool_calls) ==
    [role |-> role, content |-> content, tool_call_id |-> tool_call_id,
     tool_calls |-> tool_calls]

\* a tool call of a vendor response: function.arguments is the text of a JSON
\* object, or text that json.loads rejects
VendorArguments == {"object", "malformed"}

VendorToolCall(id, name, arguments) == [id |-> id, name |-> name, arguments |-> arguments]

\* the tool calls one vendor response may hold
VendorToolCalls ==
    { <<VendorToolCall("call_a", "read_file", a)>> : a \in VendorArguments }
    \cup { <<VendorToolCall("call_a", "read_file", a), VendorToolCall("call_b", "list_files", b)>> :
             a \in VendorArguments, b \in VendorArguments }

\* json.dumps({"result": ...}) or json.dumps({"error": ...}), openai.py:228-232
ResultJson(r) ==
    IF r.is_error THEN <<"{\"error\": ">> \o r.error[1] \o <<"}">>
    ELSE <<"{\"result\": ">> \o r.result[1] \o <<"}">>

\* the messages send_message makes of the prompt parts, openai.py:217-244:
\* one user message of the joined texts, or one tool message per ToolResult
NewOpenAIMessages(parts) ==
    IF parts.texts # <<>>
    THEN <<OpenAIMessage("user", JoinLines(parts.texts), "", <<>>)>>
    ELSE [i \in DOMAIN parts.results |->
            OpenAIMessage("tool", ResultJson(parts.results[i]), parts.results[i].id, <<>>)]

RECURSIVE ExtractOpenAIToolCalls(_)
\* the ToolCalls made of message.tool_calls, openai.py:283-301: a call whose
\* arguments json.loads rejects is logged and left out
ExtractOpenAIToolCalls(calls) ==
    IF calls = <<>> THEN <<>>
    ELSE (IF calls[1].arguments = "object"
          THEN <<ToolCall(calls[1].id, calls[1].name, "ok")>> ELSE <<>>)
         \o ExtractOpenAIToolCalls(Tail(calls))

\* start_chat on the history run() hands over: the system prompt, then the
\* converted history, which holds the user prompt, openai.py:178-191
OpenAIStartChat ==
    /\ openai_pc = "idle"
    /\ openai_session' = <<OpenAIMessage("system", <<"system prompt">>, "", <<>>),
                           OpenAIMessage("user", UserPrompt, "", <<>>)>>
    /\ openai_parts' = PromptParts(<<UserPrompt>>, <<>>)
    /\ openai_pc' = "ready"
    /\ UNCHANGED <<openai_tool_calls, openai_sends, openaiRest>>

\* send_message up to the API call: the new messages are appended to the
\* session, openai.py:213-255
OpenAISendMessage ==
    /\ openai_pc = "ready"
    /\ openai_sends < MaxOpenAISends
    /\ openai_session' = openai_session \o NewOpenAIMessages(openai_parts)
    /\ openai_sends' = openai_sends + 1
    /\ openai_pc' = "calling"
    /\ UNCHANGED <<openai_parts, openai_tool_calls, openaiRest>>

\* the API call returns or raises, openai.py:252-357; the run ends unless
\* tool calls are returned, agent.py:358-365
OpenAIReturns ==
    /\ openai_pc = "calling"
    /\ \/ /\ openai_pc' = "ended"
          /\ openai_tool_calls' = <<>>
          /\ UNCHANGED openai_session
       \/ /\ openai_session' = Append(openai_session,
                                      OpenAIMessage("assistant", <<"final answer">>, "", <<>>))
          /\ openai_tool_calls' = <<>>
          /\ openai_pc' = "ended"
       \/ \E calls \in VendorToolCalls :
            LET tool_calls_list == ExtractOpenAIToolCalls(calls)
            IN /\ openai_session' = Append(openai_session,
                                           OpenAIMessage("assistant", <<>>, "", calls))
               /\ openai_tool_calls' = tool_calls_list
               /\ openai_pc' = IF tool_calls_list = <<>> THEN "ended" ELSE "tools"
    /\ UNCHANGED <<openai_parts, openai_sends, openaiRest>>

\* the tools of the turn ran: one ToolResult per returned ToolCall, carrying
\* its id, becomes the next prompt parts, agent.py:367-374
OpenAIToolsRun ==
    /\ openai_pc = "tools"
    /\ \E failed \in [DOMAIN openai_tool_calls -> BOOLEAN] :
         openai_parts' =
            PromptParts(<<>>, [i \in DOMAIN openai_tool_calls |->
                                 IF failed[i] THEN ExceptionResult(openai_tool_calls[i])
                                 ELSE SuccessResult(openai_tool_calls[i])])
    /\ openai_pc' = "ready"
    /\ UNCHANGED <<openai_session, openai_tool_calls, openai_sends, openaiRest>>

InitOpenAI == InitCore /\ InitWeb /\ InitHarness

NextOpenAI == OpenAIStartChat \/ OpenAISendMessage \/ OpenAIReturns \/ OpenAIToolsRun

SpecOpenAI == InitOpenAI /\ [][NextOpenAI]_vars

\* index of the last assistant message of the OpenAI list, 0 if none
LastOpenAIAssistant(session) ==
    LET idx == {i \in DOMAIN session : session[i].role = "assistant"}
    IN IF idx = {} THEN 0 ELSE CHOOSE i \in idx : \A j \in idx : j <= i

\* a model call is in flight whose new messages are the results of a tool turn
CallAfterToolTurn == openai_pc = "calling" /\ openai_parts.results # <<>>

\* C32: when a model call follows a tool turn, the message list sent holds,
\* after its last assistant message, exactly one tool message for each
\* tool-call id of that assistant message, and no tool message with an id
\* that assistant message does not hold.
C32_SessionPairsResultsById ==
    CallAfterToolTurn =>
        LET a == LastOpenAIAssistant(openai_session)
            ids == {openai_session[a].tool_calls[k].id : k \in DOMAIN openai_session[a].tool_calls}
            entries == {i \in DOMAIN openai_session : i > a /\ openai_session[i].role = "tool"}
        IN /\ \A id \in ids :
                Cardinality({i \in entries : openai_session[i].tool_call_id = id}) = 1
           /\ \A i \in entries : openai_session[i].tool_call_id \in ids

\* the same, for vendor responses all of whose arguments decode
C32_AllDecodable ==
    (\A i \in DOMAIN openai_session : \A k \in DOMAIN openai_session[i].tool_calls :
        openai_session[i].tool_calls[k].arguments = "object")
      => C32_SessionPairsResultsById

\* ------------------------------------------- several runs of one instance
\* run() calls made on the instance after its first
MaxRuns == 2

\* the caller awaits run() again on the instance whose run has ended:
\* agent.py:280-304 as in Run; the counters of __init__ (agent.py:96-98) are
\* not touched
RunAgain ==
    /\ pc = "done"
    /\ runs < MaxRuns
    /\ runs' = runs + 1
    /\ quota_at_entry' = QuotaExceeded(total_prompt_tokens + total_completion_tokens,
                                       MAX_GLOBAL_TOKENS)
    /\ sends_at_entry' = send_count
    /\ returned' = None
    /\ \E args \in RunArgs :
       \E e \in LoadFailures :
         LET unreadable == args.load_state /\ state_file.kind = "corrupt"
             exists_raises == args.load_state /\ state_file.kind = "unsearchable"
             loaded == IF args.load_state THEN LoadedHistory(state_file) ELSE <<>>
         IN /\ load_state' = args.load_state
            /\ save_state' = args.save_state
            /\ IF exists_raises \/ (unreadable /\ ~Caught(LoadStateHandlers, e))
               THEN /\ raised' = Some(IF exists_raises THEN "PermissionError" ELSE e)
                    /\ pc' = "done"
                    /\ UNCHANGED history
               ELSE /\ history' = Append(loaded, ChatMessage("user", <<TextPart(UserPrompt)>>))
                    /\ pc' = "start_chat"
                    /\ raised' = None
    /\ tool_round' = 0
    /\ final_response' = DefaultFinal
    /\ UNCHANGED <<registryVars, tokenVars, MAX_GLOBAL_TOKENS, script, stdin_read,
                   stdin_closed, specialist_agents, specialist_reply, webVars, adapterVars,
                   runsRest, current_prompt_parts, state_file, send_count, tool_tasks,
                   api_outcome>>

\* the tool calls the model of the instance asks for
RunsScripts ==
    { [batch |-> b, content |-> None] :
        b \in { <<ToolCall("call_1", "read_file", "ok")>>,
                <<ToolCall("call_1", "run_shell_command", "not_mapping"),
                  ToolCall("call_2", "read_file", "ok")>> } }

\* an instance with a hard quota
InitRuns ==
    /\ TOOL_REGISTRY = StartupRegistry
    /\ registry_schema = StartupSchemas
    /\ allowed_tools = DefaultAllowed
    /\ agent_tool_functions = PrepareAllowedTools(TOOL_REGISTRY, allowed_tools)
    /\ MAX_GLOBAL_TOKENS = Quota
    /\ script \in RunsScripts
    /\ state_file \in {AbsentFile, UnsearchableFile}
    /\ specialist_agents = {}
    /\ specialist_reply = NoSpecialist
    /\ InitWeb
    /\ InitHarness
    /\ InitAdapter
    /\ InitAgent

NextRuns == Next \/ RunAgain

SpecRuns == InitRuns /\ [][NextRuns]_vars

\* a later run has ended that was entered with the counters at the quota
LaterRunEndedOverQuota == runs >= 1 /\ quota_at_entry /\ pc = "done"

AwaitingOperator == {i \in DOMAIN tool_tasks : tool_tasks[i].pc = "gate_wait"}

\* C34: at most one confirmation prompt awaits the operator's input at any
\* time, so that a line the operator types answers the one prompt displayed,
\* also when the tasks of several high-risk calls of one turn run concurrently.
C34_OnePromptAtATime == Cardinality(AwaitingOperator) <= 1

\* ----------------------------------------- one ask_confirmation_async call
\* input() calls one ask_confirmation_async call may make
MaxPrompts == 3

\* the calls whose gate is followed: high-risk names and one that is not
ConfirmCalls ==
    { ToolCall("call_1", n, a) :
        n \in {"run_shell_command", "kill_process", "read_file"}, a \in {"ok", "fails"} }

\* what input() can raise, besides end of input
InputErrors == {"EOFError", "OSError", "UnicodeDecodeError"}

\* _execute_tool reaches the gate: ask_confirmation_async up to its first
\* input(), tool_utils.py:390-409
AskConfirmation ==
    /\ confirm_task.pc = "created"
    /\ LET t == ExecuteToolEntry(confirm_task, StartupRegistry, DefaultAllowed)
       IN /\ confirm_task' = t
          /\ confirm_prompts' = IF t.pc = "gate_wait" THEN 1 ELSE 0
    /\ UNCHANGED <<confirm_input, confirm_inputs, confirmRest>>

\* input() returns the operator's line, tool_utils.py:409-421
OperatorTypes(line) ==
    /\ confirm_task.pc = "gate_wait"
    /\ confirm_inputs < MaxPrompts
    /\ LET t == GateOnLine(confirm_task, line)
       IN /\ confirm_task' = t
          /\ confirm_prompts' = IF t.pc = "gate_wait" THEN confirm_prompts + 1
                                ELSE confirm_prompts
    /\ confirm_input' = [kind |-> "line", line |-> line, error |-> ""]
    /\ confirm_inputs' = confirm_inputs + 1
    /\ UNCHANGED confirmRest

\* input() raises, tool_utils.py:423-430
InputRaises(e) ==
    /\ confirm_task.pc = "gate_wait"
    /\ confirm_task' = GateOnInputError(confirm_task, e)
    /\ confirm_input' = [kind |-> "error", line |-> "", error |-> e]
    /\ confirm_inputs' = confirm_inputs + 1
    /\ UNCHANGED <<confirm_prompts, confirmRest>>

\* the callable of an approved call ends
ConfirmedToolEnds ==
    /\ confirm_task.pc = "running"
    /\ confirm_task' = ToolEnds(confirm_task)
    /\ UNCHANGED <<confirm_input, confirm_prompts, confirm_inputs, confirmRest>>

InitConfirm ==
    /\ InitCore
    /\ InitWeb
    /\ InitOtherThanConfirm
    /\ confirm_task \in {NewTask(tc) : tc \in ConfirmCalls}
    /\ confirm_input = NoInput
    /\ confirm_prompts = 0
    /\ confirm_inputs = 0

NextConfirm ==
    \/ AskConfirmation
    \/ \E line \in InputLines : OperatorTypes(line)
    \/ \E e \in InputErrors : InputRaises(e)
    \/ ConfirmedToolEnds

SpecConfirm == InitConfirm /\ [][NextConfirm]_vars

\* the lines that lower().strip() turns into the affirmative and the negative token
AffirmativeLines == {"yes", " YES"}
NegativeLines == {"no", "No "}

\* ask_confirmation_async returned True, returned False
ReturnedTrue(t) == t.gate = "approved"
ReturnedFalse(t) == t.gate \in {"declined", "no_input"}

\* C35: for a high-risk tool name ask_confirmation_async returns True only
\* once the operator's latest input is the affirmative token, and False only
\* once it is the negative token or input() raised (end of input or another
\* error); after any other input it has returned neither and has issued the
\* prompt once more.
C35_GateOutcomeFollowsInput ==
    confirm_task.call.name \in HIGH_RISK_TOOLS =>
        /\ ReturnedTrue(confirm_task) =>
              confirm_input.kind = "line" /\ confirm_input.line \in AffirmativeLines
        /\ ReturnedFalse(confirm_task) =>
              \/ confirm_input.kind = "line" /\ confirm_input.line \in NegativeLines
              \/ confirm_input.kind = "error"
        /\ (confirm_input.kind = "line"
            /\ confirm_input.line \notin AffirmativeLines \cup NegativeLines) =>
              /\ ~ReturnedTrue(confirm_task)
              /\ ~ReturnedFalse(confirm_task)
              /\ confirm_task.pc = "gate_wait"
              /\ confirm_prompts = confirm_inputs + 1

C35_Witness ==
    /\ confirm_task.call.name \in HIGH_RISK_TOOLS
    /\ ReturnedTrue(confirm_task)
    /\ confirm_prompts = 3
    /\ confirm_input.line = " YES"

\* ------------------------------------------------- one turn with Gemini
\* parts of one candidate
MaxCandidateParts == 2

\* a part of candidate.content: a text, a text of white space, an empty text
\* or a function call
CandidateParts ==
    { [text |-> <<"final answer">>, function_call |-> ""],
      [text |-> <<" ">>, function_call |-> ""],
      [text |-> <<>>, function_call |-> ""],
      [text |-> <<>>, function_call |-> "read_file"] }

PartSequences == UNION { [1..n -> CandidateParts] : n \in 0..MaxCandidateParts }

FinishReasons == {"STOP", "MAX_TOKENS", "SAFETY", "RECITATION", "OTHER"}

GeminiErrors == {"API key not valid", "quota", "429", "Deadline Exceeded", "unexpected"}

GeminiResponse(candidates, finish_reason, content, parts) ==
    [kind |-> "response", error |-> "", candidates |-> candidates,
     finish_reason |-> finish_reason, content |-> content, parts |-> parts]

GeminiResponses ==
    { [NoGeminiResponse EXCEPT !.kind = "error", !.error = e] : e \in GeminiErrors }
    \cup { GeminiResponse(FALSE, "", FALSE, <<>>) }
    \cup { GeminiResponse(TRUE, f, FALSE, <<>>) : f \in FinishReasons }
    \cup { GeminiResponse(TRUE, f, TRUE, ps) : f \in FinishReasons, ps \in PartSequences }

WhiteSpace == {" ", "\n"}

RECURSIVE StripLeft(_)
StripLeft(text) ==
    IF text # <<>> /\ text[1] \in WhiteSpace THEN StripLeft(Tail(text)) ELSE text

RECURSIVE StripRight(_)
StripRight(text) ==
    IF text # <<>> /\ text[Len(text)] \in WhiteSpace
    THEN StripRight(SubSeq(text, 1, Len(text) - 1)) ELSE text

\* str.strip()
Strip(text) == StripRight(StripLeft(text))

RECURSIVE PartTexts(_)
\* all_text_parts, gemini.py:308-309
PartTexts(parts) ==
    IF parts = <<>> THEN <<>>
    ELSE (IF parts[1].text # <<>> THEN <<parts[1].text>> ELSE <<>>) \o PartTexts(Tail(parts))

RECURSIVE PartCalls(_)
\* all_tool_calls, gemini.py:310-315
PartCalls(parts) ==
    IF parts = <<>> THEN <<>>
    ELSE (IF parts[1].function_call # ""
          THEN <<ToolCall(CallId(parts[1].function_call, 0, 0), parts[1].function_call, "ok")>>
          ELSE <<>>) \o PartCalls(Tail(parts))

GeminiErrorText(e) ==
    CASE e = "API key not valid" -> <<"[Error: Invalid Gemini API Key.]">>
      [] e = "quota"             -> <<"[Error: Gemini API quota exceeded.]">>
      [] e = "Deadline Exceeded" -> <<"[Error: Request to Gemini timed out.]">>
      [] e = "429"               -> <<"[Error: Gemini API rate limit exceeded.]">>
      [] OTHER                   -> <<"[Error communicating with Gemini: ", e, "]">>

\* GeminiProvider.send_message from the response on, gemini.py:270-356
gemini_send_message(response) ==
    IF response.kind = "error"
    THEN [text |-> Some(GeminiErrorText(response.error)), tool_calls |-> None]
    ELSE IF ~response.candidates
    THEN [text |-> Some(<<"[Error: Gemini response contained no candidates.]">>),
          tool_calls |-> None]
    ELSE IF response.finish_reason \notin {"STOP", "TOOL_CALLING", "MAX_TOKENS"}
    THEN [text |-> Some(CASE response.finish_reason = "SAFETY" ->
                               <<"[Response blocked by safety settings: ", "ratings", "]">>
                          [] response.finish_reason = "RECITATION" ->
                               <<"[Response blocked due to recitation policy.]">>
                          [] OTHER ->
                               <<"[Response generation stopped unexpectedly: ",
                                 response.finish_reason, "]">>),
          tool_calls |-> None]
    ELSE
      LET texts == PartTexts(response.parts)
          calls == PartCalls(response.parts)
          text0 == IF response.content /\ response.parts # <<>>
                   THEN (IF texts # <<>> THEN Some(Strip(JoinLines(texts))) ELSE None)
                   ELSE IF ~response.content /\ response.finish_reason = "STOP"
                   THEN Some(<<>>)
                   ELSE None
          calls0 == IF response.content /\ response.parts # <<>> /\ calls # <<>>
                    THEN Some(calls) ELSE None
          text1 == IF response.finish_reason = "MAX_TOKENS"
                   THEN Some((IF text0 # None THEN text0[1] ELSE <<>>) \o TruncatedWarning)
                   ELSE text0
      IN [text |-> text1, tool_calls |-> calls0]

\* run() awaits send_message, agent.py:334-338
TurnSends ==
    /\ turn_pc = "idle"
    /\ \E response \in GeminiResponses : gemini_response' = response
    /\ turn_pc' = "awaiting"
    /\ UNCHANGED <<turn_reply, turn_final, turn_history, turn_dispatched, turnRest>>

\* send_message returns and run() handles the reply, agent.py:348-367
TurnHandled ==
    /\ turn_pc = "awaiting"
    /\ LET reply == gemini_send_message(gemini_response)
           model_parts == ModelParts(reply.text, reply.tool_calls)
       IN /\ turn_reply' = reply
          /\ IF model_parts = <<>>
             THEN /\ turn_final' = NoContentText
                  /\ UNCHANGED <<turn_history, turn_dispatched>>
             ELSE /\ turn_history' = Append(turn_history, ChatMessage("assistant", model_parts))
                  /\ IF reply.tool_calls = None
                     THEN /\ turn_final' = (IF reply.text # None THEN reply.text[1]
                                            ELSE NoFinalText)
                          /\ UNCHANGED turn_dispatched
                     ELSE /\ turn_dispatched' = Len(reply.tool_calls[1])
                          /\ UNCHANGED turn_final
    /\ turn_pc' = "handled"
    /\ UNCHANGED <<gemini_response, turnRest>>

InitTurn == InitCore /\ InitWeb /\ InitHarness

NextTurn == TurnSends \/ TurnHandled

SpecTurn == InitTurn /\ [][NextTurn]_vars

\* the texts run() puts in the place of an answer
Placeholders == {NoContentText, NoFinalText}

\* the turn was handled and the model had asked for no tool
HandledWithoutToolCalls == turn_pc = "handled" /\ turn_reply.tool_calls = None

\* C36: when the model turn returns no tool calls no tool task is created,
\* and the final answer is the returned text when that text is not empty,
\* and a placeholder when the text is empty or absent.
C36_TextOrPlaceholder ==
    HandledWithoutToolCalls =>
        /\ turn_dispatched = 0
        /\ IF turn_reply.text = None \/ turn_reply.text = Some(<<>>)
           THEN turn_final \in Placeholders
           ELSE turn_final = turn_reply.text[1]

\* the same, for the turns whose returned text is absent or not empty
C36_UnlessEmptyText ==
    turn_reply.text # Some(<<>>) => C36_TextOrPlaceholder

\* ------------------------------------------------ the model of each agent
\* settings.AGENT_LLM_CONFIG[agent]["model"], settings.py:60-70
ConfiguredModel(a) ==
    IF a = "CodingAgent" THEN "gemini-1.5-pro-latest" ELSE "gemini-1.5-flash-latest"

\* the order in which instantiate_agents builds the agents: the specialists,
\* then the Controller, main_interactive.py:95-163
InstantiationOrder == <<"CodingAgent", "SysAdminAgent", "ControllerAgent">>

\* vendors that take the model with each request, and one that binds it to
\* the chat session
ModelKinds == {"gemini", "openai"}

\* get_or_create_cached_provider for the next agent, then the agent's
\* __init__: a cached instance has its model_name overwritten
\* (main_interactive.py:52-57), a new one is built with the agent's model;
\* agent_model is read from the instance, agent.py:52
InstantiateAgent ==
    /\ instantiated < Len(InstantiationOrder)
    /\ LET a == InstantiationOrder[instantiated + 1]
           k == config_key[a]
       IN /\ provider_cache' = [provider_cache EXCEPT ![k] = TRUE]
          /\ provider_model' = [provider_model EXCEPT ![k] = ConfiguredModel(a)]
          /\ agent_model' = [agent_model EXCEPT ![a] = ConfiguredModel(a)]
    /\ instantiated' = instantiated + 1
    /\ UNCHANGED <<config_key, models_kind, session_model, session_open, model_request,
                   modelRest>>

\* run() of agent a starts its chat session: GeminiProvider builds the
\* GenerativeModel from self.model_name, gemini.py:178-188; the OpenAI
\* session is a message list
AgentStartsChat(a) ==
    /\ instantiated = Len(InstantiationOrder)
    /\ ~session_open[a]
    /\ session_open' = [session_open EXCEPT ![a] = TRUE]
    /\ session_model' = [session_model EXCEPT ![a] =
                            IF models_kind = "gemini" THEN Some(provider_model[config_key[a]])
                            ELSE None]
    /\ UNCHANGED <<config_key, models_kind, provider_cache, provider_model, agent_model,
                   instantiated, model_request, modelRest>>

\* send_message(chat_session, parts, model_name_override=self.agent_model),
\* agent.py:335-339: Gemini sends to the session's model and only logs a
\* differing override (gemini.py:206-209), OpenAI sends to
\* model_name_override or self.model_name (openai.py:253)
AgentSends(a) ==
    /\ session_open[a]
    /\ model_request' =
          Some([agent |-> a,
                model |-> IF models_kind = "gemini" THEN session_model[a][1]
                          ELSE IF agent_model[a] # "" THEN agent_model[a]
                          ELSE provider_model[config_key[a]]])
    /\ UNCHANGED <<config_key, models_kind, provider_cache, provider_model, agent_model,
                   instantiated, session_model, session_open, modelRest>>

\* run() of agent a returns; its next run starts a new session
AgentRunEnds(a) ==
    /\ session_open[a]
    /\ model_request # None /\ model_request[1].agent = a
    /\ session_open' = [session_open EXCEPT ![a] = FALSE]
    /\ session_model' = [session_model EXCEPT ![a] = None]
    /\ UNCHANGED <<config_key, models_kind, provider_cache, provider_model, agent_model,
                   instantiated, model_request, modelRest>>

InitModels ==
    /\ InitCore
    /\ InitWeb
    /\ InitOtherThanModels
    /\ config_key \in CacheAssignments
    /\ models_kind \in ModelKinds
    /\ provider_cache = [k \in ProviderInstances |-> FALSE]
    /\ provider_model = [k \in ProviderInstances |-> ""]
    /\ agent_model = [a \in SharingAgents |-> ""]
    /\ instantiated = 0
    /\ session_model = [a \in SharingAgents |-> None]
    /\ session_open = [a \in SharingAgents |-> FALSE]
    /\ model_request = None

NextModels ==
    \/ InstantiateAgent
    \/ \E a \in SharingAgents : AgentStartsChat(a)
    \/ \E a \in SharingAgents : AgentSends(a)
    \/ \E a \in SharingAgents : AgentRunEnds(a)

SpecModels == InitModels /\ [][NextModels]_vars

\* C37: every request sent for an agent goes to the model configured for
\* that agent, also when agents configured with different models share a
\* cached provider instance.
C37_OwnModel ==
    model_request # None =>
        model_request[1].model = ConfiguredModel(model_request[1].agent)

\* the agent shares its provider instance with no agent of another model
SharesWithOwnModelOnly(a) ==
    \A b \in SharingAgents :
        config_key[b] = config_key[a] => ConfiguredModel(b) = ConfiguredModel(a)

\* the same, for a vendor that takes the model with each request and for
\* agents that share an instance with agents of the same model only
C37_UnlessSessionBoundAndShared ==
    (model_request # None
     /\ (models_kind = "openai" \/ SharesWithOwnModelOnly(model_request[1].agent)))
        => C37_OwnModel

\* --------------------------------------------- !reload and the Controller
\* the generic schema of the delegation tool, controller.py:58-73
DelegateSchema ==
    [name |-> SPECIALIST_TOOL_NAME, parameters |-> {"agent_name", "user_prompt"}]

\* agent_tool_schemas after _prepare_allowed_tools, agent.py:108-129: the
\* schemas of the allowed names the registry holds
PrepareAllowedSchemas(registry, schemas, allowed) ==
    { [name |-> n,
       parameters |-> IF schemas[n][1].parameters = None THEN {}
                      ELSE schemas[n][1].parameters[1]] :
        n \in {x \in allowed \cap ToolNames : registry[x] # NoFunction /\ schemas[x] # None} }

\* the vendors translate_schema_for_provider knows, schemas.py:257-262
ProviderNames == {"openai", "anthropic", "gemini", "ollama"}

\* translate_schema_for_provider: a declaration per schema; the empty format
\* when there is none
translate_schema_for_provider(provider_name, tool_schemas) ==
    IF provider_name \in ProviderNames THEN Some(tool_schemas) ELSE None

\* the refresh of one agent in handle_reload_command,
\* main_interactive.py:206-221
RetranslatedSchemas(provider_name, tool_schemas) ==
    IF tool_schemas # {} THEN translate_schema_for_provider(provider_name, tool_schemas)
    ELSE None

\* !reload of a tools module that imports: the decorators run again and
\* every agent, the Controller first, is refreshed from the registry,
\* main_interactive.py:176-221
ReloadToolsModule(module) ==
    /\ module \in ToolModules
    /\ \A n \in module : TOOL_REGISTRY[n] < MaxVersion
    /\ TOOL_REGISTRY' = RegisterAll(TOOL_REGISTRY, module)
    /\ registry_schema' =
           [n \in ToolNames |-> IF n \in module
                                THEN Some(ToolSchema(n, TOOL_REGISTRY'[n], None, "None"))
                                ELSE registry_schema[n]]
    /\ agent_tool_functions' = PrepareAllowedTools(TOOL_REGISTRY', allowed_tools)
    /\ controller_tool_schemas' =
           PrepareAllowedSchemas(TOOL_REGISTRY', registry_schema', {SPECIALIST_TOOL_NAME})
    /\ controller_provider_schemas' =
           RetranslatedSchemas(reload_provider, controller_tool_schemas')
    /\ coding_provider_schemas' =
           RetranslatedSchemas(reload_provider,
                               PrepareAllowedSchemas(TOOL_REGISTRY', registry_schema',
                                                     allowed_tools))
    /\ reload_result' = "reloaded"
    /\ UNCHANGED <<allowed_tools, tokenVars, runVars, tool_tasks, MAX_GLOBAL_TOKENS, script,
                   stdin_read, stdin_closed, specialist_agents, specialist_reply, webVars,
                   adapterVars, reload_provider, reloadRest>>

\* !reload of a module that is not found or that raises when imported: the
\* except clauses print the error, main_interactive.py:231-238
ReloadFails(e) ==
    /\ reload_result' = e
    /\ reload_result # e
    /\ UNCHANGED <<coreVars, controller_tool_schemas, controller_provider_schemas,
                   coding_provider_schemas, reload_provider, reloadRest>>

\* !reload of an agents or core module: a warning is printed,
\* main_interactive.py:223-230
ReloadOtherModule ==
    /\ reload_result' = "not_a_tools_module"
    /\ reload_result # "not_a_tools_module"
    /\ UNCHANGED <<coreVars, controller_tool_schemas, controller_provider_schemas,
                   coding_provider_schemas, reload_provider, reloadRest>>

\* the agents after instantiate_agents: the Controller holds the schema of
\* its delegation tool (controller.py:74-80), the specialist those of its
\* allowed tools (agent.py:79-92)
InitReload ==
    /\ TOOL_REGISTRY = StartupRegistry
    /\ registry_schema = StartupSchemas
    /\ allowed_tools \in AllowLists
    /\ agent_tool_functions = PrepareAllowedTools(TOOL_REGISTRY, allowed_tools)
    /\ MAX_GLOBAL_TOKENS = 0
    /\ script = [batch |-> <<>>, content |-> None]
    /\ state_file = AbsentFile
    /\ specialist_agents = {}
    /\ specialist_reply = NoSpecialist
    /\ InitWeb
    /\ InitAdapter
    /\ InitAgent
    /\ InitOtherThanReload
    /\ reload_provider \in ProviderNames
    /\ controller_tool_schemas = {DelegateSchema}
    /\ controller_provider_schemas =
           translate_schema_for_provider(reload_provider, {DelegateSchema})
    /\ coding_provider_schemas =
           RetranslatedSchemas(reload_provider,
                               PrepareAllowedSchemas(StartupRegistry, StartupSchemas,
                                                     allowed_tools))
    /\ reload_result = "none"

NextReload ==
    \/ \E module \in ToolModules : ReloadToolsModule(module)
    \/ \E e \in {"ModuleNotFoundError", "SyntaxError"} : ReloadFails(e)
    \/ ReloadOtherModule

SpecReload == InitReload /\ [][NextReload]_vars

\* the Controller's provider schema declares the delegation tool
DeclaresDelegation ==
    /\ controller_provider_schemas # None
    /\ DelegateSchema \in controller_provider_schemas[1]

C38_UntilToolsReload ==
    (\A n \in ToolNames : TOOL_REGISTRY[n] = StartupRegistry[n]) => DeclaresDelegation

\* ------------------------------------------ what the Controller executes
\* a delegate_task call one of whose arguments is missing or no string, or
\* whose arguments are no mapping at all
BadDelegation(tc) ==
    /\ tc.name = SPECIALIST_TOOL_NAME
    /\ \/ ~tc.arguments.mapping
       \/ tc.arguments.agent_name = None
       \/ tc.arguments.user_prompt = None

\* the task ended with an error ToolResult and nothing was run for it
ErrorAndNothingRun(t) ==
    /\ t.pc = "done" /\ ~t.invoked
    /\ t.func = NoFunction /\ t.gate = "none"
    /\ t.result[1].is_error /\ t.result[1].error # None /\ t.result[1].result = None

\* C39: ControllerAgent._execute_tool looks no tool up in the registry and
\* never enters the confirmation gate; a delegate_task call with string
\* arguments runs the named specialist and nothing else, and only when that
\* name is a specialist; a delegate_task call with a missing or non-string
\* argument, and a call of any other name, end in an error ToolResult with
\* nothing run.
C39_ControllerOnlyDelegates ==
    \A t \in Tasks :
        /\ t.func = NoFunction /\ t.gate = "none"
        /\ t.invoked => \E n \in specialist_agents : Delegates(t.call, n)
        /\ t.pc # "created" =>
             /\ (\E n \in specialist_agents : Delegates(t.call, n))
                  => (t.invoked /\ t.pc \in {"running", "done"})
             /\ BadDelegation(t.call) => ErrorAndNothingRun(t)
             /\ t.call.name # SPECIALIST_TOOL_NAME => ErrorAndNothingRun(t)

C39_Witness ==
    /\ pc = "done"
    /\ \E t \in Tasks : BadDelegation(t.call) /\ t.call.arguments.mapping
                        /\ t.call.arguments.agent_name # None /\ ErrorAndNothingRun(t)

\* ----------------------------------------------------------- kill_process
\* the name kill_process asks confirmation under, process.py:164
ESCALATION_NAME == "kill_process_sudo"

\* HIGH_RISK_TOOLS: the default list, a list the environment extends with the
\* escalation's name, and the empty list, settings.py:51-57 and 81
HighRiskSettings == {HIGH_RISK_TOOLS, HIGH_RISK_TOOLS \cup {ESCALATION_NAME}, {}}

\* the pid arguments: an integer above zero, zero, text that is no integer
KillPids == {"valid", "zero", "text"}

PermissionStderr == {"kill: (1) - Operation not permitted", "kill: Permission denied"}

\* how `kill -<sig> <pid>` ends: success, a failure with its return code and
\* stderr, or no kill program at all
KillExits ==
    {[raises |-> FALSE, success |-> TRUE, rc |-> 0, stderr |-> ""]}
    \cup { [raises |-> FALSE, success |-> FALSE, rc |-> c, stderr |-> e] :
             c \in {1, 2},
             e \in PermissionStderr \cup {"kill: (4242) - No such process"} }
    \cup {[raises |-> TRUE, success |-> FALSE, rc |-> 0, stderr |-> ""]}

\* any(p_err in stderr.lower() for p_err in permission_errors), process.py:159-160
IsPermissionError(exit) == exit.rc = 1 /\ exit.stderr \in PermissionStderr

\* kill_process from its entry to the plain kill, process.py:138-152
KillStarts ==
    /\ kill_pc = "idle"
    /\ IF kill_pid = "valid"
       THEN /\ kill_pc' = "kill_run"
            /\ kill_output' = kill_output
       ELSE /\ kill_pc' = "done"
            /\ kill_output' = IF kill_pid = "zero" THEN <<"Error: Invalid PID provided.">>
                              ELSE <<"Error: PID and signal number must be valid integers.">>
    /\ UNCHANGED <<coreVars, settings_high_risk, kill_pid, kill_exit, escalation_prompts,
                   escalation_answer, sudo_executed, killRest>>

\* the plain kill is over; on a permission error ask_confirmation_async is
\* awaited under the escalation's name and returns True at once when that
\* name is not in HIGH_RISK_TOOLS, process.py:153-175 and tool_utils.py:390-409
KillExited ==
    /\ kill_pc = "kill_run"
    /\ IF kill_exit.raises
       THEN /\ kill_pc' = "done"
            /\ kill_output' = <<"Error: 'kill' command not found in PATH.">>
            /\ escalation_prompts' = escalation_prompts
       ELSE IF kill_exit.success
       THEN /\ kill_pc' = "done"
            /\ kill_output' = <<"Signal ", "sent successfully to PID ">>
            /\ escalation_prompts' = escalation_prompts
       ELSE IF ~IsPermissionError(kill_exit)
       THEN /\ kill_pc' = "done"
            /\ kill_output' = <<"Tool 'kill_process' failed (RC=", kill_exit.stderr>>
            /\ escalation_prompts' = escalation_prompts
       ELSE IF ESCALATION_NAME \notin settings_high_risk
       THEN /\ kill_pc' = "sudo_run"
            /\ kill_output' = kill_output
            /\ escalation_prompts' = escalation_prompts
       ELSE /\ kill_pc' = "escalation_wait"
            /\ kill_output' = kill_output
            /\ escalation_prompts' = escalation_prompts + 1
    /\ UNCHANGED <<coreVars, settings_high_risk, kill_pid, kill_exit, escalation_answer,
                   sudo_executed, killRest>>

SudoCancelledText == <<"Standard 'kill' failed with permission error (RC=",
                   "User cancelled sudo attempt.">>

\* the operator answers the escalation's prompt, tool_utils.py:409-421 and
\* process.py:164-172
EscalationAnswered(line) ==
    /\ kill_pc = "escalation_wait"
    /\ escalation_answer' = <<line>>
    /\ LET confirm == LowerStrip(line)
       IN IF confirm = "yes"
          THEN /\ kill_pc' = "sudo_run"
               /\ kill_output' = kill_output
               /\ escalation_prompts' = escalation_prompts
          ELSE IF confirm = "no"
          THEN /\ kill_pc' = "done"
               /\ kill_output' = SudoCancelledText
               /\ escalation_prompts' = escalation_prompts
          ELSE /\ escalation_prompts < MaxPrompts
               /\ kill_pc' = kill_pc
               /\ kill_output' = kill_output
               /\ escalation_prompts' = escalation_prompts + 1
    /\ UNCHANGED <<coreVars, settings_high_risk, kill_pid, kill_exit, sudo_executed,
                   killRest>>

\* input() raises at the escalation's prompt: the gate answers False,
\* tool_utils.py:423-430
EscalationInputRaises(e) ==
    /\ kill_pc = "escalation_wait"
    /\ escalation_answer' = <<e>>
    /\ kill_pc' = "done"
    /\ kill_output' = IF Caught(GateInputHandlers, e) THEN SudoCancelledText
                      ELSE <<"An unexpected error occurred trying to kill PID ", e>>
    /\ UNCHANGED <<coreVars, settings_high_risk, kill_pid, kill_exit, escalation_prompts,
                   sudo_executed, killRest>>

\* run_tool_command_async runs ["sudo", "--", "kill", ...], process.py:165-170
SudoKillRuns ==
    /\ kill_pc = "sudo_run"
    /\ sudo_executed' = TRUE
    /\ kill_pc' = "done"
    /\ kill_output' = <<"Attempted 'sudo kill' after permission error.">>
    /\ UNCHANGED <<coreVars, settings_high_risk, kill_pid, kill_exit, escalation_prompts,
                   escalation_answer, killRest>>

InitKill ==
    /\ InitCore
    /\ InitWeb
    /\ InitOtherThanKill
    /\ settings_high_risk \in HighRiskSettings
    /\ kill_pid \in KillPids
    /\ kill_exit \in KillExits
    /\ kill_pc = "idle"
    /\ escalation_prompts = 0
    /\ escalation_answer = <<>>
    /\ sudo_executed = FALSE
    /\ kill_output = <<>>

NextKill ==
    \/ KillStarts
    \/ KillExited
    \/ \E line \in InputLines : EscalationAnswered(line)
    \/ \E e \in InputErrors : EscalationInputRaises(e)
    \/ SudoKillRuns

SpecKill == InitKill /\ [][NextKill]_vars

\* the sudo kill is being run or was run
SudoKillReached == kill_pc = "sudo_run" \/ sudo_executed

\* the operator was prompted for the escalation and the latest answer was
\* the affirmative token
PromptedAndAffirmed ==
    /\ escalation_prompts >= 1
    /\ escalation_answer # <<>>
    /\ escalation_answer[1] \in AffirmativeLines

\* C40: kill_process never executes the 'sudo kill' escalation unless the
\* operator has been prompted for that escalation and answered affirmatively.
C40_SudoKillOnlyAfterAffirmedPrompt == SudoKillReached => PromptedAndAffirmed

\* the same where HIGH_RISK_TOOLS names the escalation
C40_WhereEscalationIsHighRisk ==
    (ESCALATION_NAME \in settings_high_risk /\ SudoKillReached) => PromptedAndAffirmed

====
